---------------------------- MODULE Spec2Model ----------------------------
(***************************************************************************)
(* Water-sort puzzle: the pour engine (src/src/game/engine.ts) and the     *)
(* solver's canonical hash (src/src/game/solver.ts, src/unnamed/part_003). *)
(*                                                                         *)
(* Conventions.                                                            *)
(*  - A JavaScript array is a TLA+ sequence; index i of the model is the   *)
(*    JavaScript index i-1.  Orders and "lowest index" are preserved.      *)
(*  - A Color is a JavaScript string, here a TLA+ string.  Where the code  *)
(*    looks inside a string (join, sort) the string is the sequence of its *)
(*    UTF-16 code units, see Chars.                                        *)
(*  - An omitted optional lockedMask (undefined) is the empty sequence:    *)
(*    every use in engine.ts (lockedMask?.[i], lockedMask?.some(Boolean))  *)
(*    gives the same falsy result for undefined and for an empty array.    *)
(*  - Arrays are objects: where the code copies or mutates an array the    *)
(*    model keeps a heap, a sequence of arrays addressed by position.      *)
(***************************************************************************)
EXTENDS Integers, Sequences, FiniteSets, TLC

(***************************************************************************)
(* Program constants                                                       *)
(***************************************************************************)

\* types.ts: export const TUBE_CAPACITY = 4
TUBE_CAPACITY == 4

\* types.ts: COLOR_KEYS = Object.keys(COLORS), in insertion order
COLOR_KEYS == <<"red", "blue", "green", "yellow", "purple", "orange", "teal">>

(***************************************************************************)
(* Bounds of the model                                                     *)
(***************************************************************************)

\* number of tubes of a puzzle state
NumTubes == 3

\* total number of liquid units in a puzzle state
MaxUnits == 6

\* total number of liquid units in a state whose canonical key is taken
HashUnits == 2

\* the most units in a partially filled state the solver is run on
SolveUnits == 3

\* a ceiling on visited states small enough to be exceeded
SmallCeiling == 3

\* the longest pool whose shuffles are all taken
MaxShuffled == 8

\* the pours of one game
MaxMoves == 3

\* the undos of one game
MaxUndo == 1

\* the runs of unmounted animation overlays still executing at one time
MaxStale == 1

\* the colours in play on the engine's states: two, the setting of the
\* concrete scenarios (the engine only ever compares colours for equality)
Colors == {COLOR_KEYS[1], COLOR_KEYS[2]}

\* the value of tube[tube.length - 1] on an empty tube
Undefined == "undefined"

NoMask == <<>>

Min(a, b) == IF a <= b THEN a ELSE b

(***************************************************************************)
(* engine.ts                                                               *)
(***************************************************************************)

\* topColor(tube): tube[tube.length - 1]
topColor(tube) == IF Len(tube) = 0 THEN Undefined ELSE tube[Len(tube)]

\* lockedMask?.[i] on the per-tube masks: undefined without a mask
MaskAt(lockedMask, i) == IF i \in DOMAIN lockedMask THEN lockedMask[i] ELSE NoMask

\* lockedMask?.[i]: undefined (falsy) without a mask or beyond its length
Locked(lockedMask, i) == i \in DOMAIN lockedMask /\ lockedMask[i]

\* mutant: the scan does not stop at the first unit of another colour
RECURSIVE topCountLoopNoBreak(_, _, _, _, _)
topCountLoopNoBreak(tube, lockedMask, color, i, count) ==
  IF i < 1 THEN count
  ELSE IF Locked(lockedMask, i) THEN count
  ELSE IF tube[i] = color
       THEN topCountLoopNoBreak(tube, lockedMask, color, i - 1, count + 1)
  ELSE topCountLoopNoBreak(tube, lockedMask, color, i - 1, count)

\* the loop of topCount: i runs downward from tube.length - 2 (here Len - 1)
RECURSIVE topCountLoop(_, _, _, _, _)
topCountLoop(tube, lockedMask, color, i, count) ==
  IF i < 1 THEN count
  ELSE IF Locked(lockedMask, i) THEN count
  ELSE IF tube[i] = color THEN topCountLoop(tube, lockedMask, color, i - 1, count + 1)
  ELSE count

topCount(tube, lockedMask) ==
  IF Len(tube) = 0 THEN 0
  ELSE topCountLoop(tube, lockedMask, tube[Len(tube)], Len(tube) - 1, 1)

\* mutant: the capacity test is off by one
canPourOffByOne(source, destination) ==
  IF Len(source) = 0 THEN FALSE
  ELSE IF Len(destination) > TUBE_CAPACITY THEN FALSE
  ELSE IF Len(destination) = 0 THEN TRUE
  ELSE topColor(source) = topColor(destination)

canPour(source, destination) ==
  IF Len(source) = 0 THEN FALSE
  ELSE IF Len(destination) >= TUBE_CAPACITY THEN FALSE
  ELSE IF Len(destination) = 0 THEN TRUE
  ELSE topColor(source) = topColor(destination)

\* mutant: the free space of the destination is ignored
TransferredNoSpace(count, space) == count

\* Math.min(count, space)
Transferred(count, space) == Min(count, space)

\* source.splice(source.length - transferred, transferred), 0 <= transferred <= length
Splice(arr, transferred) == SubSeq(arr, 1, Len(arr) - transferred)

\* for (i < transferred) dest.push(color)
PushN(arr, color, transferred) == arr \o [i \in 1..transferred |-> color]

\* tubes.map(...) of pour, the result loop of solverPour: an array of references
ResultRefs(tubesArr, from, to, sourceRef, destRef) ==
  [i \in 1..Len(tubesArr) |->
     IF i = from THEN sourceRef ELSE IF i = to THEN destRef ELSE tubesArr[i]]

\* mutant: source is tubes[from] itself, not a copy of it
pourOnHeapInPlace(heap, tubesArr, from, to, lockedMask) ==
  LET sourceRef == tubesArr[from]
      destRef == Len(heap) + 1
      heap1 == heap \o <<heap[tubesArr[to]]>>
      color == topColor(heap1[sourceRef])
      count == topCount(heap1[sourceRef], MaskAt(lockedMask, from))
      space == TUBE_CAPACITY - Len(heap1[destRef])
      transferred == Transferred(count, space)
      heap2 == [heap1 EXCEPT ![sourceRef] = Splice(heap1[sourceRef], transferred)]
      heap3 == [heap2 EXCEPT ![destRef] = PushN(heap2[destRef], color, transferred)]
  IN [heap |-> heap3,
      tubes |-> ResultRefs(tubesArr, from, to, sourceRef, destRef)]

(* pour on the heap.  tubesArr is the array of references passed in; the two *)
(* spreads [...tubes[from]], [...tubes[to]] allocate fresh arrays, which     *)
(* alone are mutated.  Returns the heap after the call and the new array.    *)
pourOnHeap(heap, tubesArr, from, to, lockedMask) ==
  LET sourceRef == Len(heap) + 1
      destRef == Len(heap) + 2
      heap1 == heap \o <<heap[tubesArr[from]], heap[tubesArr[to]]>>
      color == topColor(heap1[sourceRef])
      count == topCount(heap1[sourceRef], MaskAt(lockedMask, from))
      space == TUBE_CAPACITY - Len(heap1[destRef])
      transferred == Transferred(count, space)
      heap2 == [heap1 EXCEPT ![sourceRef] = Splice(heap1[sourceRef], transferred)]
      heap3 == [heap2 EXCEPT ![destRef] = PushN(heap2[destRef], color, transferred)]
  IN [heap |-> heap3,
      tubes |-> ResultRefs(tubesArr, from, to, sourceRef, destRef)]

\* the run of equal colours at the top of source, as solverPour counts it
RECURSIVE solverTopRun(_, _, _, _)
solverTopRun(source, color, i, count) ==
  IF i < 1 THEN count
  ELSE IF source[i] = color THEN solverTopRun(source, color, i - 1, count + 1)
  ELSE count

\* part_003 solverPour on the heap (called only on a non-empty source)
solverPourOnHeap(heap, tubesArr, from, to) ==
  LET sourceRef == Len(heap) + 1
      destRef == Len(heap) + 2
      heap1 == heap \o <<heap[tubesArr[from]], heap[tubesArr[to]]>>
      source == heap1[sourceRef]
      color == source[Len(source)]
      count == solverTopRun(source, color, Len(source) - 1, 1)
      space == TUBE_CAPACITY - Len(heap1[destRef])
      transferred == Min(count, space)
      heap2 == [heap1 EXCEPT ![sourceRef] = Splice(source, transferred)]
      heap3 == [heap2 EXCEPT ![destRef] = PushN(heap2[destRef], color, transferred)]
  IN [heap |-> heap3,
      tubes |-> ResultRefs(tubesArr, from, to, sourceRef, destRef)]

\* a state given by value, laid out on a heap: tube i is the array at address i
IdRefs(tubes) == [i \in 1..Len(tubes) |-> i]

\* the arrays an array of references points to
Deref(heap, refs) == [i \in 1..Len(refs) |-> heap[refs[i]]]

\* pour as a function of values
pour(tubes, from, to, lockedMask) ==
  LET r == pourOnHeap(tubes, IdRefs(tubes), from, to, lockedMask)
  IN Deref(r.heap, r.tubes)

solverPour(tubes, from, to) ==
  LET r == solverPourOnHeap(tubes, IdRefs(tubes), from, to)
  IN Deref(r.heap, r.tubes)

\* lockedMask?.some(Boolean)
SomeLocked(lockedMask) == \E i \in DOMAIN lockedMask : lockedMask[i]

\* mutant: a tube of one colour counts as complete before it is full
isTubeCompleteAnyLength(tube, lockedMask) ==
  IF SomeLocked(lockedMask) THEN FALSE
  ELSE \A i \in 1..Len(tube) : tube[i] = tube[1]

isTubeComplete(tube, lockedMask) ==
  IF Len(tube) # TUBE_CAPACITY THEN FALSE
  ELSE IF SomeLocked(lockedMask) THEN FALSE
  ELSE \A i \in 1..Len(tube) : tube[i] = tube[1]

\* mutant: every tube of one colour counts, whatever its length
isLevelCompleteAnyLength(tubes, lockedMask) ==
  \A i \in DOMAIN tubes : \A k \in DOMAIN tubes[i] : tubes[i][k] = tubes[i][1]

isLevelComplete(tubes, lockedMask) ==
  \A i \in 1..Len(tubes) :
    Len(tubes[i]) = 0 \/ isTubeComplete(tubes[i], MaskAt(lockedMask, i))

\* mutant: the destination may be the source itself
RECURSIVE validMovesToSelf(_, _, _, _)
validMovesToSelf(tubes, from, to, moves) ==
  IF to > Len(tubes) THEN moves
  ELSE IF canPour(tubes[from], tubes[to])
       THEN validMovesToSelf(tubes, from, to + 1, Append(moves, [from |-> from, to |-> to]))
  ELSE validMovesToSelf(tubes, from, to + 1, moves)

\* the inner loop of getValidMoves over to, appending to moves
RECURSIVE validMovesTo(_, _, _, _)
validMovesTo(tubes, from, to, moves) ==
  IF to > Len(tubes) THEN moves
  ELSE IF from = to THEN validMovesTo(tubes, from, to + 1, moves)
  ELSE IF canPour(tubes[from], tubes[to])
       THEN validMovesTo(tubes, from, to + 1, Append(moves, [from |-> from, to |-> to]))
  ELSE validMovesTo(tubes, from, to + 1, moves)

\* the outer loop of getValidMoves over from
RECURSIVE validMovesFrom(_, _, _, _)
validMovesFrom(tubes, lockedMask, from, moves) ==
  IF from > Len(tubes) THEN moves
  ELSE IF Len(tubes[from]) = 0 THEN validMovesFrom(tubes, lockedMask, from + 1, moves)
  ELSE IF isTubeComplete(tubes[from], MaskAt(lockedMask, from))
       THEN validMovesFrom(tubes, lockedMask, from + 1, moves)
  ELSE validMovesFrom(tubes, lockedMask, from + 1, validMovesTo(tubes, from, 1, moves))

getValidMoves(tubes, lockedMask) == validMovesFrom(tubes, lockedMask, 1, <<>>)

\* mutant: the level is not tested for completion
isStuckNoMoves(tubes, lockedMask) == Len(getValidMoves(tubes, lockedMask)) = 0

isStuck(tubes, lockedMask) ==
  ~isLevelComplete(tubes, lockedMask) /\ Len(getValidMoves(tubes, lockedMask)) = 0

\* mutant: the mask is left as it is
revealTubeStale(tubeMask, tube) == tubeMask

\* mutant: the mask is brought to the tube's length, the top is not revealed
revealTubeKeepsTop(tubeMask, tube) ==
  IF Len(tubeMask) > Len(tube) THEN SubSeq(tubeMask, 1, Len(tube))
  ELSE tubeMask \o [k \in 1..(Len(tube) - Len(tubeMask)) |-> FALSE]

\* engine.ts:117-135, the body of the map of revealTopSegments for one
\* tube: the mask is cut or padded with false to the tube's length, then
\* its top entry is set to false
revealTube(tubeMask, tube) ==
  LET newMask == IF Len(tubeMask) > Len(tube) THEN SubSeq(tubeMask, 1, Len(tube))
                 ELSE tubeMask \o [k \in 1..(Len(tube) - Len(tubeMask)) |-> FALSE]
  IN IF Len(tube) > 0 /\ newMask[Len(tube)]
     THEN [newMask EXCEPT ![Len(tube)] = FALSE]
     ELSE newMask

\* revealTopSegments(lockedMask, tubes, affectedIndices); affectedIndices is
\* given as the set of its elements
revealTopSegments(lockedMask, tubes, affectedIndices) ==
  [ti \in DOMAIN lockedMask |->
     IF ti \in affectedIndices THEN revealTube(lockedMask[ti], tubes[ti])
     ELSE lockedMask[ti]]

\* revealTopSegments(lockedMask, tubes): without indices every tube is processed
revealAllTopSegments(lockedMask, tubes) ==
  revealTopSegments(lockedMask, tubes, DOMAIN lockedMask)

(***************************************************************************)
(* The canonical hash: solver.ts hashState, part_003 hashState             *)
(***************************************************************************)

\* a colour name as the sequence of its UTF-16 code units
Chars(color) ==
  CASE color = "red" -> <<114, 101, 100>>
    [] color = "blue" -> <<98, 108, 117, 101>>
    [] color = "green" -> <<103, 114, 101, 101, 110>>
    [] color = "yellow" -> <<121, 101, 108, 108, 111, 119>>
    [] color = "purple" -> <<112, 117, 114, 112, 108, 101>>
    [] color = "orange" -> <<111, 114, 97, 110, 103, 101>>
    [] color = "teal" -> <<116, 101, 97, 108>>

\* the one-character strings "|", "," and "_"
StrBar == <<124>>
StrComma == <<44>>
StrUnderscore == <<95>>

\* mutant: the separator is left out
RECURSIVE JoinNoSeparator(_, _)
JoinNoSeparator(strs, sep) ==
  IF Len(strs) = 0 THEN <<>>
  ELSE strs[1] \o JoinNoSeparator(Tail(strs), sep)

\* Array.prototype.join(sep) on an array of strings
RECURSIVE Join(_, _)
Join(strs, sep) ==
  IF Len(strs) = 0 THEN <<>>
  ELSE IF Len(strs) = 1 THEN strs[1]
  ELSE strs[1] \o sep \o Join(Tail(strs), sep)

\* a < b as Array.prototype.sort() compares strings without a comparator:
\* by UTF-16 code units, a proper prefix first
RECURSIVE StrLess(_, _)
StrLess(a, b) ==
  IF Len(b) = 0 THEN FALSE
  ELSE IF Len(a) = 0 THEN TRUE
  ELSE IF a[1] # b[1] THEN a[1] < b[1]
  ELSE StrLess(Tail(a), Tail(b))

\* x put into the sorted array strs, after the elements not greater than it
RECURSIVE SortedInsert(_, _)
SortedInsert(strs, x) ==
  IF Len(strs) = 0 THEN <<x>>
  ELSE IF StrLess(x, strs[1]) THEN <<x>> \o strs
  ELSE <<strs[1]>> \o SortedInsert(Tail(strs), x)

\* mutant: the tokens are left in tube order
SortStringsNot(strs) == strs

\* Array.prototype.sort() on an array of strings. The sorted prefix and the
\* last string are bound as values before the insertion.
RECURSIVE SortStrings(_)
SortStrings(strs) ==
  IF Len(strs) = 0 THEN <<>>
  ELSE CHOOSE sorted \in {SortedInsert(prefix, last) :
                            prefix \in {SortStrings(SubSeq(strs, 1, Len(strs) - 1))},
                            last \in {strs[Len(strs)]}} : TRUE

\* the strings of a tube's colours
TubeChars(tube) == [k \in 1..Len(tube) |-> Chars(tube[k])]

\* solver.ts: tubes.map((t) => t.join(",")).sort().join("|")
hashState(tubes) ==
  CHOOSE key \in
    {Join(sorted, StrBar) :
       sorted \in {SortStrings(joined) :
                     joined \in {[i \in 1..Len(state) |->
                                     Join(TubeChars(state[i]), StrComma)] :
                                  state \in {tubes}}}} : TRUE

\* part_003: "_" for an empty tube, else t.join(""); sorted; joined by "|"
hashStateCompact(tubes) ==
  CHOOSE key \in
    {Join(sorted, StrBar) :
       sorted \in {SortStrings(joined) :
                     joined \in {[i \in 1..Len(state) |->
                                     IF Len(state[i]) = 0 THEN StrUnderscore
                                     ELSE Join(TubeChars(state[i]), <<>>)] :
                                  state \in {tubes}}}} : TRUE

(***************************************************************************)
(* The solver: part_003 solve (both prunings, solverPour, compact hash)    *)
(* and solver.ts solve (getValidMoves, pour, one pruning)                  *)
(***************************************************************************)

\* part_003: const MAX_STATES = 100_000
MAX_STATES == 100000

\* solver.ts: const MAX_STATES = 300_000
MAX_STATES_OLD == 300000

\* mutant: the ceiling answered as unsolvable
NullAsUnsolvable == [solvable |-> FALSE, par |-> 0]

\* the null result of solve, and the value of the result while the loops run
Null == [null |-> TRUE]
Running == [running |-> TRUE]

\* mutant: the depth counted one too high
SolveResultOffByOne(solvable, par) == [solvable |-> solvable, par |-> par + 1]

\* { solvable, par }
SolveResult(solvable, par) == [solvable |-> solvable, par |-> par]

\* the accumulated search: visited hashes, the next frontier, the result
SearchAcc(visited, nextQueue, result) ==
  [visited |-> visited, nextQueue |-> nextQueue, result |-> result]

\* part_003:185-188: a complete tube is skipped as a source
solveSkipsSource(src) ==
  \/ Len(src) = 0
  \/ Len(src) = TUBE_CAPACITY /\ \A i \in DOMAIN src : src[i] = src[1]

\* part_003:190-196
srcTopCount(src) == solverTopRun(src, src[Len(src)], Len(src) - 1, 1)

\* part_003:210-213: the lowest index of an empty tube, 0 (-1 in the code)
\* when there is none
firstEmpty(state) ==
  IF \E e \in DOMAIN state : Len(state[e]) = 0
  THEN CHOOSE e \in DOMAIN state :
         /\ Len(state[e]) = 0
         /\ \A d \in DOMAIN state : Len(state[d]) = 0 => e <= d
  ELSE 0

\* part_003:199-202: not a pour at all
solveSkipsIllegal(state, from, to) ==
  LET src == state[from]
      dst == state[to]
  IN \/ from = to
     \/ Len(dst) >= TUBE_CAPACITY
     \/ Len(dst) > 0 /\ dst[Len(dst)] # src[Len(src)]

\* part_003:205: the pointless-empty-pour pruning
solveSkipsPointless(state, from, to) ==
  Len(state[to]) = 0 /\ srcTopCount(state[from]) = Len(state[from])

\* mutant: every empty destination pruned
solveSkipsEveryEmpty(state, from, to) == Len(state[to]) = 0

\* part_003:209-215: the empty-tube symmetry pruning
solveSkipsLaterEmpty(state, from, to) ==
  Len(state[to]) = 0 /\ to # firstEmpty(state)

\* the pairs (from, to) the loops of solve pass to solverPour; pointless and
\* symmetry say which of the two prunings are in force (both in the code)
solvePours(state, from, to, pointless, symmetry) ==
  /\ ~solveSkipsSource(state[from])
  /\ ~solveSkipsIllegal(state, from, to)
  /\ ~(pointless /\ solveSkipsPointless(state, from, to))
  /\ ~(symmetry /\ solveSkipsLaterEmpty(state, from, to))

\* part_003:198-228: the loop over to
RECURSIVE solveTo(_, _, _, _, _, _, _)
solveTo(state, from, to, depth, pointless, symmetry, acc) ==
  IF to > Len(state) \/ acc.result # Running THEN acc
  ELSE IF ~solvePours(state, from, to, pointless, symmetry)
  THEN solveTo(state, from, to + 1, depth, pointless, symmetry, acc)
  ELSE LET next == solverPour(state, from, to)
           hash == hashStateCompact(next)
       IN IF isLevelComplete(next, NoMask)
          THEN [acc EXCEPT !.result = SolveResult(TRUE, depth)]
          ELSE solveTo(state, from, to + 1, depth, pointless, symmetry,
                       IF hash \notin acc.visited
                       THEN SearchAcc(acc.visited \cup {hash},
                                      Append(acc.nextQueue, next), acc.result)
                       ELSE acc)

\* part_003:181-233: the loop over from, with the ceiling test after each source
RECURSIVE solveFrom(_, _, _, _, _, _, _)
solveFrom(state, from, depth, pointless, symmetry, maxStates, acc) ==
  IF from > Len(state) \/ acc.result # Running THEN acc
  ELSE IF solveSkipsSource(state[from])
  THEN solveFrom(state, from + 1, depth, pointless, symmetry, maxStates, acc)
  ELSE LET acc2 == solveTo(state, from, 1, depth, pointless, symmetry, acc)
       IN IF acc2.result # Running THEN acc2
          ELSE IF Cardinality(acc2.visited) > maxStates
          THEN [acc2 EXCEPT !.result = Null]
          ELSE solveFrom(state, from + 1, depth, pointless, symmetry, maxStates, acc2)

\* part_003:179-234: the loop over the states of the frontier
RECURSIVE solveQueue(_, _, _, _, _, _, _)
solveQueue(queue, k, depth, pointless, symmetry, maxStates, acc) ==
  IF k > Len(queue) \/ acc.result # Running THEN acc
  ELSE solveQueue(queue, k + 1, depth, pointless, symmetry, maxStates,
                  solveFrom(queue[k], 1, depth, pointless, symmetry, maxStates, acc))

\* part_003:175-239: the while loop; depth is the depth before depth++
RECURSIVE solveWhile(_, _, _, _, _, _)
solveWhile(queue, depth, pointless, symmetry, maxStates, visited) ==
  IF Len(queue) = 0 THEN SolveResult(FALSE, 0)
  ELSE LET acc == solveQueue(queue, 1, depth + 1, pointless, symmetry, maxStates,
                             SearchAcc(visited, <<>>, Running))
       IN IF acc.result # Running THEN acc.result
          ELSE solveWhile(acc.nextQueue, depth + 1, pointless, symmetry, maxStates,
                          acc.visited)

\* part_003:164-240 with the prunings and the ceiling as parameters
solveWith(tubes, pointless, symmetry, maxStates) ==
  IF isLevelComplete(tubes, NoMask) THEN SolveResult(TRUE, 0)
  ELSE solveWhile(<<tubes>>, 0, pointless, symmetry, maxStates, {hashStateCompact(tubes)})

\* part_003:164-240
solve(tubes) == solveWith(tubes, TRUE, TRUE, MAX_STATES)

\* the accumulated search of solveWithMetrics: the locals of the function,
\* and explored, the states the for loop has taken from the queue so far
\* (not a variable of the code: a record of what the loop did)
MetricsAcc(visited, nextQueue, par, totalMoves, deadEnds, hitLimit, movesFromState, explored) ==
  [visited |-> visited, nextQueue |-> nextQueue, par |-> par,
   totalMoves |-> totalMoves, deadEnds |-> deadEnds, hitLimit |-> hitLimit,
   movesFromState |-> movesFromState, explored |-> explored]

\* mutant: par is overwritten by every complete state found
RECURSIVE metricsToLastPar(_, _, _, _, _)
metricsToLastPar(state, from, to, depth, acc) ==
  IF to > Len(state) THEN acc
  ELSE IF ~solvePours(state, from, to, TRUE, TRUE)
  THEN metricsToLastPar(state, from, to + 1, depth, acc)
  ELSE LET next == solverPour(state, from, to)
           hash == hashStateCompact(next)
           acc1 == [acc EXCEPT !.movesFromState = @ + 1,
                               !.par = IF isLevelComplete(next, NoMask)
                                       THEN depth ELSE @]
       IN metricsToLastPar(state, from, to + 1, depth,
                    IF hash \notin acc1.visited
                    THEN [acc1 EXCEPT !.visited = @ \cup {hash},
                                      !.nextQueue = Append(@, next)]
                    ELSE acc1)

\* part_003:285-313: the loop over to
RECURSIVE metricsTo(_, _, _, _, _)
metricsTo(state, from, to, depth, acc) ==
  IF to > Len(state) THEN acc
  ELSE IF ~solvePours(state, from, to, TRUE, TRUE)
  THEN metricsTo(state, from, to + 1, depth, acc)
  ELSE LET next == solverPour(state, from, to)
           hash == hashStateCompact(next)
           acc1 == [acc EXCEPT !.movesFromState = @ + 1,
                               !.par = IF @ < 0 /\ isLevelComplete(next, NoMask)
                                       THEN depth ELSE @]
       IN metricsTo(state, from, to + 1, depth,
                    IF hash \notin acc1.visited
                    THEN [acc1 EXCEPT !.visited = @ \cup {hash},
                                      !.nextQueue = Append(@, next)]
                    ELSE acc1)

\* part_003:270-319: the loop over from; the ceiling test after each source
\* sets hitLimit and leaves the loop
RECURSIVE metricsFrom(_, _, _, _, _)
metricsFrom(state, from, depth, maxStates, acc) ==
  IF from > Len(state) THEN acc
  ELSE IF solveSkipsSource(state[from])
  THEN metricsFrom(state, from + 1, depth, maxStates, acc)
  ELSE LET acc2 == metricsTo(state, from, 1, depth, acc)
       IN IF Cardinality(acc2.visited) > maxStates
          THEN [acc2 EXCEPT !.hitLimit = TRUE]
          ELSE metricsFrom(state, from + 1, depth, maxStates, acc2)

\* part_003:267-324: the loop over the states of the frontier
RECURSIVE metricsQueue(_, _, _, _, _)
metricsQueue(queue, k, depth, maxStates, acc) ==
  IF k > Len(queue) THEN acc
  ELSE LET acc2 == metricsFrom(queue[k], 1, depth, maxStates,
                               [acc EXCEPT !.movesFromState = 0])
           acc3 == [acc2 EXCEPT !.totalMoves = @ + acc2.movesFromState,
                                !.deadEnds = IF acc2.movesFromState = 0
                                             THEN @ + 1 ELSE @,
                                !.explored = Append(@, queue[k])]
       IN IF acc3.hitLimit THEN acc3
          ELSE metricsQueue(queue, k + 1, depth, maxStates, acc3)

\* part_003:263-328: the while loop; depth is the depth before depth++
RECURSIVE metricsWhile(_, _, _, _)
metricsWhile(queue, depth, maxStates, acc) ==
  IF Len(queue) = 0 THEN acc
  ELSE LET acc2 == metricsQueue(queue, 1, depth + 1, maxStates,
                                [acc EXCEPT !.nextQueue = <<>>])
       IN IF acc2.hitLimit THEN acc2
          ELSE metricsWhile(acc2.nextQueue, depth + 1, maxStates, acc2)

\* part_003:255-328: the locals of solveWithMetrics when its loops are over,
\* for tubes that are not complete
metricsRun(tubes, maxStates) ==
  metricsWhile(<<tubes>>, 0, maxStates,
               MetricsAcc({hashStateCompact(tubes)}, <<>>, -1, 0, 0, FALSE, 0, <<>>))

\* totalMoves / statesExplored and deadEnds / statesExplored, kept as the two
\* numbers divided; 0 when statesExplored is 0
Ratio(n, statesExplored) ==
  IF statesExplored > 0 THEN [num |-> n, den |-> statesExplored]
  ELSE [num |-> 0, den |-> 1]

\* part_003:247-342 with the ceiling as a parameter
solveWithMetricsWith(tubes, maxStates) ==
  IF isLevelComplete(tubes, NoMask)
  THEN [solvable |-> TRUE, par |-> 0, statesExplored |-> 1, totalMoves |-> 0,
        avgBranching |-> [num |-> 0, den |-> 1], deadEnds |-> 0,
        deadEndRatio |-> [num |-> 0, den |-> 1], hitLimit |-> FALSE]
  ELSE LET acc == metricsRun(tubes, maxStates)
       IN [solvable |-> acc.par >= 0,
           par |-> IF acc.par >= 0 THEN acc.par ELSE 0,
           statesExplored |-> Cardinality(acc.visited),
           totalMoves |-> acc.totalMoves,
           avgBranching |-> Ratio(acc.totalMoves, Cardinality(acc.visited)),
           deadEnds |-> acc.deadEnds,
           deadEndRatio |-> Ratio(acc.deadEnds, Cardinality(acc.visited)),
           hitLimit |-> acc.hitLimit]

\* part_003:247-342
solveWithMetrics(tubes) == solveWithMetricsWith(tubes, MAX_STATES)

\* solver.ts:45-53: the pruning of the older solve
solveOldSkips(state, move) ==
  LET source == state[move.from]
  IN Len(state[move.to]) = 0 /\ \A i \in DOMAIN source : source[i] = source[1]

\* solver.ts:45-65: the loop over the moves of one state
RECURSIVE solveOldMoves(_, _, _, _, _)
solveOldMoves(state, moves, k, depth, acc) ==
  IF k > Len(moves) \/ acc.result # Running THEN acc
  ELSE IF solveOldSkips(state, moves[k])
  THEN solveOldMoves(state, moves, k + 1, depth, acc)
  ELSE LET next == pour(state, moves[k].from, moves[k].to, NoMask)
           hash == hashState(next)
       IN IF isLevelComplete(next, NoMask)
          THEN [acc EXCEPT !.result = SolveResult(TRUE, depth)]
          ELSE solveOldMoves(state, moves, k + 1, depth,
                             IF hash \notin acc.visited
                             THEN SearchAcc(acc.visited \cup {hash},
                                            Append(acc.nextQueue, next), acc.result)
                             ELSE acc)

\* solver.ts:42-71: the loop over the frontier, ceiling test after each state
RECURSIVE solveOldQueue(_, _, _, _, _)
solveOldQueue(queue, k, depth, maxStates, acc) ==
  IF k > Len(queue) \/ acc.result # Running THEN acc
  ELSE LET acc2 == solveOldMoves(queue[k], getValidMoves(queue[k], NoMask), 1, depth, acc)
       IN IF acc2.result # Running THEN acc2
          ELSE IF Cardinality(acc2.visited) > maxStates
          THEN [acc2 EXCEPT !.result = Null]
          ELSE solveOldQueue(queue, k + 1, depth, maxStates, acc2)

\* solver.ts:38-76
RECURSIVE solveOldWhile(_, _, _, _)
solveOldWhile(queue, depth, maxStates, visited) ==
  IF Len(queue) = 0 THEN SolveResult(FALSE, 0)
  ELSE LET acc == solveOldQueue(queue, 1, depth + 1, maxStates,
                                SearchAcc(visited, <<>>, Running))
       IN IF acc.result # Running THEN acc.result
          ELSE solveOldWhile(acc.nextQueue, depth + 1, maxStates, acc.visited)

\* solver.ts:27-77 with the ceiling as a parameter
solveOldWith(tubes, maxStates) ==
  IF isLevelComplete(tubes, NoMask) THEN SolveResult(TRUE, 0)
  ELSE solveOldWhile(<<tubes>>, 0, maxStates, {hashState(tubes)})

\* solver.ts:27-77
solveOld(tubes) == solveOldWith(tubes, MAX_STATES_OLD)

(***************************************************************************)
(* The generator: levels.ts                                                *)
(***************************************************************************)

\* levels.ts:5-13: the parameters getDifficulty gives for a level number
\* (lockedPercentage in percent)
DifficultyParams(colors, tubesPerColor, emptyTubes, lockedPercentage, paidTubes) ==
  [colors |-> colors, tubesPerColor |-> tubesPerColor, emptyTubes |-> emptyTubes,
   lockedPercentage |-> lockedPercentage, paidTubes |-> paidTubes]

\* levels.ts:118-127: tubesPerColor * TUBE_CAPACITY units of each colour
colorPool(numColors, tubesPerColor) ==
  [i \in 1..(numColors * TUBE_CAPACITY * tubesPerColor) |->
     COLOR_KEYS[((i - 1) \div (TUBE_CAPACITY * tubesPerColor)) + 1]]

\* levels.ts:103: [arr[i], arr[j]] = [arr[j], arr[i]]
Exchange(arr, i, j) == [arr EXCEPT ![i] = arr[j], ![j] = arr[i]]

\* levels.ts:101-104: the arrays the loop can leave, from the arrays arrs
\* before its iteration at index i (1-based); Math.random picks any j <= i
RECURSIVE shuffleLoop(_, _)
shuffleLoop(arrs, i) ==
  IF i <= 1 THEN arrs
  ELSE shuffleLoop({Exchange(a, i, j) : a \in arrs, j \in 1..i}, i - 1)

\* levels.ts:100-106: Fisher-Yates with Math.random.  Every run of the loop
\* is taken for an array of at most MaxShuffled elements; for a longer array,
\* the runs in which at most one iteration picked a j other than i.
shuffleArray(arr) ==
  IF Len(arr) <= MaxShuffled
  THEN shuffleLoop({arr}, Len(arr))
  ELSE {Exchange(arr, i, j) : i \in DOMAIN arr, j \in DOMAIN arr}

\* mutant: the slices overlap by one unit
sliceTubesOverlapping(pool, filledTubeCount, emptyTubes) ==
  [i \in 1..(filledTubeCount + emptyTubes) |->
     IF i <= filledTubeCount
     THEN SubSeq(pool, (i - 1) * (TUBE_CAPACITY - 1) + 1,
                       (i - 1) * (TUBE_CAPACITY - 1) + TUBE_CAPACITY)
     ELSE <<>>]

\* levels.ts:133-143: slices of TUBE_CAPACITY units, then the empty tubes
sliceTubes(pool, filledTubeCount, emptyTubes) ==
  [i \in 1..(filledTubeCount + emptyTubes) |->
     IF i <= filledTubeCount
     THEN SubSeq(pool, (i - 1) * TUBE_CAPACITY + 1, i * TUBE_CAPACITY)
     ELSE <<>>]

\* levels.ts:113-144: the tube lists generateTubes can return
generateTubes(numColors, tubesPerColor, emptyTubes) ==
  {sliceTubes(p, numColors * tubesPerColor, emptyTubes) :
     p \in shuffleArray(colorPool(numColors, tubesPerColor))}

\* mutant: no candidate counts as holding a pre-completed tube
hasNoDuplicateTube(tubes) == FALSE

\* levels.ts:147-151
hasDuplicateTube(tubes) ==
  \E i \in DOMAIN tubes :
    Len(tubes[i]) = TUBE_CAPACITY /\ \A k \in DOMAIN tubes[i] : tubes[i][k] = tubes[i][1]

\* levels.ts:174-179: Math.floor(filledTubeCount * (TUBE_CAPACITY - 1.5))
estimatePar(filledTubeCount) == (filledTubeCount * (2 * TUBE_CAPACITY - 3)) \div 2

\* levels.ts:161-170: the masks generateLockedMask can return for one tube:
\* all false, or, when lockedPercentage > 0 and the tube is not empty, the
\* lockedCount = 1 + floor(random * (length - 1)) bottom segments locked
tubeMasks(tube, lockedPercentage) ==
  {[i \in DOMAIN tube |-> FALSE]}
    \cup IF Len(tube) = 0 \/ lockedPercentage <= 0 THEN {}
         ELSE {[i \in DOMAIN tube |-> i <= lockedCount] :
                 lockedCount \in IF Len(tube) = 1 THEN {1} ELSE 1..(Len(tube) - 1)}

\* levels.ts:157-171
generateLockedMask(tubes, lockedPercentage) ==
  {m \in [DOMAIN tubes -> UNION {tubeMasks(tubes[i], lockedPercentage) : i \in DOMAIN tubes}] :
     \A i \in DOMAIN tubes : m[i] \in tubeMasks(tubes[i], lockedPercentage)}

\* levels.ts:191
filledTubeCount(d) == d.colors * d.tubesPerColor

\* levels.ts:193
totalEmptyTubes(d) == d.emptyTubes + d.paidTubes

\* levels.ts:196
canSolve(d) == filledTubeCount(d) <= 8

\* mutant: the attempt ceiling of the solver path for every level
maxAttemptsAlways50(d) == 50

\* levels.ts:197
maxAttempts(d) == IF canSolve(d) THEN 50 ELSE 20

\* mutant: the par of the solver is not recorded
makeLevelParLost(d, tubes, par) ==
  {[tubes |-> tubes, par |-> estimatePar(filledTubeCount(d)), colors |-> d.colors,
    lockedMask |-> m, paidTubes |-> d.paidTubes] :
     m \in generateLockedMask(tubes, d.lockedPercentage)}

\* levels.ts:199-208: the levels makeLevel can return (world, levelNumber
\* and tubeCost, which depend on the level number only, are left out)
makeLevel(d, tubes, par) ==
  {[tubes |-> tubes, par |-> par, colors |-> d.colors,
    lockedMask |-> m, paidTubes |-> d.paidTubes] :
     m \in generateLockedMask(tubes, d.lockedPercentage)}

\* mutant: an indeterminate result is treated as unsolvable
solveOutcomeNullRetries(result) ==
  IF result = Null THEN "retry"
  ELSE IF ~result.solvable THEN "retry"
  ELSE IF result.par < 3 THEN "retry"
  ELSE "exact"

\* levels.ts:220-227: what createLevel does with the result of solve
solveOutcome(result) ==
  IF result = Null THEN "estimate"
  ELSE IF ~result.solvable THEN "retry"
  ELSE IF result.par < 3 THEN "retry"
  ELSE "exact"

\* levels.ts:214-215: rejected before the solver is invoked
rejectedEarly(tubes) == isLevelComplete(tubes, NoMask) \/ hasDuplicateTube(tubes)

(***************************************************************************)
(* engine.ts createGameState, hooks/useGameState.ts                        *)
(* Tube indices are 1-based; 0 stands for null in selectedTube and         *)
(* invalidTube.  restartCount, which no handler of useGameState.ts         *)
(* changes, is kept as createGameState sets it.                            *)
(***************************************************************************)

\* engine.ts:142-164
createGameState(tubes, lockedMask) ==
  [tubes |-> tubes,
   selectedTube |-> 0,
   moves |-> <<>>,
   undoCount |-> 0,
   restartCount |-> 0,
   history |-> <<>>,
   lockedMaskHistory |-> <<>>,
   invalidTube |-> 0,
   pourAnim |-> Null,
   lockedMask |-> revealAllTopSegments(lockedMask, tubes),
   unlockedPaidTubes |-> {}]

\* useGameState.ts:58-75: the animation a legal pour request starts
startPourAnim(prev, from, to) ==
  LET source == prev.tubes[from]
  IN [fromIndex |-> from,
      toIndex |-> to,
      color |-> topColor(source),
      count |-> Min(topCount(source, prev.lockedMask[from]),
                    TUBE_CAPACITY - Len(prev.tubes[to])),
      sourceTubeBefore |-> source,
      sourceLockedBefore |-> prev.lockedMask[from],
      destTubeLength |-> Len(prev.tubes[to])]

\* mutant: a pour request is accepted whether or not canPour allows it
selectTubeNoCanPour(prev, index) ==
  IF prev.pourAnim # Null THEN prev
  ELSE IF isLevelComplete(prev.tubes, prev.lockedMask) THEN prev
  ELSE IF prev.selectedTube = 0
  THEN IF Len(prev.tubes[index]) = 0 THEN prev
       ELSE IF isTubeComplete(prev.tubes[index], prev.lockedMask[index]) THEN prev
       ELSE [prev EXCEPT !.selectedTube = index]
  ELSE IF prev.selectedTube = index THEN [prev EXCEPT !.selectedTube = 0]
  ELSE [prev EXCEPT !.selectedTube = 0,
                    !.invalidTube = 0,
                    !.pourAnim = startPourAnim(prev, prev.selectedTube, index)]

\* mutant: taps are not blocked while a pour animation is pending
selectTubeWhileAnimating(prev, index) ==
  IF isLevelComplete(prev.tubes, prev.lockedMask) THEN prev
  ELSE IF prev.selectedTube = 0
  THEN IF Len(prev.tubes[index]) = 0 THEN prev
       ELSE IF isTubeComplete(prev.tubes[index], prev.lockedMask[index]) THEN prev
       ELSE [prev EXCEPT !.selectedTube = index]
  ELSE IF prev.selectedTube = index THEN [prev EXCEPT !.selectedTube = 0]
  ELSE IF canPour(prev.tubes[prev.selectedTube], prev.tubes[index])
  THEN [prev EXCEPT !.selectedTube = 0,
                    !.invalidTube = 0,
                    !.pourAnim = startPourAnim(prev, prev.selectedTube, index)]
  ELSE IF /\ Len(prev.tubes[index]) > 0
          /\ ~isTubeComplete(prev.tubes[index], prev.lockedMask[index])
  THEN [prev EXCEPT !.selectedTube = index, !.invalidTube = 0]
  ELSE [prev EXCEPT !.selectedTube = 0, !.invalidTube = index]

\* useGameState.ts:27-85, the state selectTube(index) sets
selectTube(prev, index) ==
  IF prev.pourAnim # Null THEN prev
  ELSE IF isLevelComplete(prev.tubes, prev.lockedMask) THEN prev
  ELSE IF prev.selectedTube = 0
  THEN IF Len(prev.tubes[index]) = 0 THEN prev
       ELSE IF isTubeComplete(prev.tubes[index], prev.lockedMask[index]) THEN prev
       ELSE [prev EXCEPT !.selectedTube = index]
  ELSE IF prev.selectedTube = index THEN [prev EXCEPT !.selectedTube = 0]
  ELSE IF canPour(prev.tubes[prev.selectedTube], prev.tubes[index])
  THEN [prev EXCEPT !.selectedTube = 0,
                    !.invalidTube = 0,
                    !.pourAnim = startPourAnim(prev, prev.selectedTube, index)]
  ELSE IF /\ Len(prev.tubes[index]) > 0
          /\ ~isTubeComplete(prev.tubes[index], prev.lockedMask[index])
  THEN [prev EXCEPT !.selectedTube = index, !.invalidTube = 0]
  ELSE [prev EXCEPT !.selectedTube = 0, !.invalidTube = index]

\* mutant: the pour is made without the locked mask
commitPourNoMask(prev) ==
  IF prev.pourAnim = Null THEN prev
  ELSE LET newTubes == pour(prev.tubes, prev.pourAnim.fromIndex,
                            prev.pourAnim.toIndex, NoMask)
           newLockedMask == revealTopSegments(prev.lockedMask, newTubes,
                              {prev.pourAnim.fromIndex, prev.pourAnim.toIndex})
       IN [prev EXCEPT !.tubes = newTubes,
                       !.selectedTube = 0,
                       !.moves = Append(@, [from |-> prev.pourAnim.fromIndex,
                                            to |-> prev.pourAnim.toIndex]),
                       !.history = Append(@, prev.tubes),
                       !.lockedMaskHistory = Append(@, prev.lockedMask),
                       !.invalidTube = 0,
                       !.lockedMask = newLockedMask]

\* mutant: the history keeps the tubes after the pour
commitPourSavesNew(prev) ==
  IF prev.pourAnim = Null THEN prev
  ELSE LET newTubes == pour(prev.tubes, prev.pourAnim.fromIndex,
                            prev.pourAnim.toIndex, prev.lockedMask)
           newLockedMask == revealTopSegments(prev.lockedMask, newTubes,
                              {prev.pourAnim.fromIndex, prev.pourAnim.toIndex})
       IN [prev EXCEPT !.tubes = newTubes,
                       !.selectedTube = 0,
                       !.moves = Append(@, [from |-> prev.pourAnim.fromIndex,
                                            to |-> prev.pourAnim.toIndex]),
                       !.history = Append(@, newTubes),
                       !.lockedMaskHistory = Append(@, prev.lockedMask),
                       !.invalidTube = 0,
                       !.lockedMask = newLockedMask]

\* useGameState.ts:88-109, the state commitPour() sets; pourAnim is kept
commitPour(prev) ==
  IF prev.pourAnim = Null THEN prev
  ELSE LET newTubes == pour(prev.tubes, prev.pourAnim.fromIndex,
                            prev.pourAnim.toIndex, prev.lockedMask)
           newLockedMask == revealTopSegments(prev.lockedMask, newTubes,
                              {prev.pourAnim.fromIndex, prev.pourAnim.toIndex})
       IN [prev EXCEPT !.tubes = newTubes,
                       !.selectedTube = 0,
                       !.moves = Append(@, [from |-> prev.pourAnim.fromIndex,
                                            to |-> prev.pourAnim.toIndex]),
                       !.history = Append(@, prev.tubes),
                       !.lockedMaskHistory = Append(@, prev.lockedMask),
                       !.invalidTube = 0,
                       !.lockedMask = newLockedMask]

\* useGameState.ts:112-114
finishPourAnim(prev) == [prev EXCEPT !.pourAnim = Null]

\* prev.history.slice(0, -1)
DropLast(arr) == SubSeq(arr, 1, Len(arr) - 1)

\* mutant: the last move stays recorded
undoKeepsMoves(prev) ==
  IF Len(prev.history) = 0 THEN prev
  ELSE [prev EXCEPT !.tubes = prev.history[Len(prev.history)],
                    !.selectedTube = 0,
                    !.history = DropLast(@),
                    !.lockedMaskHistory = DropLast(@),
                    !.undoCount = @ + 1,
                    !.invalidTube = 0,
                    !.pourAnim = Null,
                    !.lockedMask = prev.lockedMaskHistory[Len(prev.lockedMaskHistory)]]

\* useGameState.ts:116-134
undo(prev) ==
  IF Len(prev.history) = 0 THEN prev
  ELSE [prev EXCEPT !.tubes = prev.history[Len(prev.history)],
                    !.selectedTube = 0,
                    !.moves = DropLast(@),
                    !.history = DropLast(@),
                    !.lockedMaskHistory = DropLast(@),
                    !.undoCount = @ + 1,
                    !.invalidTube = 0,
                    !.pourAnim = Null,
                    !.lockedMask = prev.lockedMaskHistory[Len(prev.lockedMaskHistory)]]

\* useGameState.ts:136-143
unlockPaidTube(prev, index) ==
  IF index \in prev.unlockedPaidTubes THEN prev
  ELSE [prev EXCEPT !.unlockedPaidTubes = @ \cup {index}]

\* useGameState.ts:19-25: the timer the effect sets when invalidTube is not null
clearInvalidTube(prev) == [prev EXCEPT !.invalidTube = 0]

\* useGameState.ts:145-148
levelComplete(state) == isLevelComplete(state.tubes, state.lockedMask)

\* useGameState.ts:150-153
stuck(state) ==
  /\ ~levelComplete(state)
  /\ state.pourAnim = Null
  /\ Len(getValidMoves(state.tubes, state.lockedMask)) = 0

(***************************************************************************)
(* The puzzle states the functions are exercised on                        *)
(***************************************************************************)

\* every tube of exactly len units over the colours cs
TubesOfLen(cs, len) == [1..len -> cs]

\* every state of n tubes over cs, each within TUBE_CAPACITY, of at most units units
RECURSIVE StatesOf(_, _, _)
StatesOf(cs, n, units) ==
  IF n = 0 THEN {<<>>}
  ELSE UNION {{<<t>> \o rest : t \in TubesOfLen(cs, len),
                               rest \in StatesOf(cs, n - 1, units - len)} :
              len \in 0..Min(TUBE_CAPACITY, units)}

\* puzzles of two to NumTubes tubes
BoundedStates == UNION {StatesOf(Colors, n, MaxUnits) : n \in 2..NumTubes}

\* the concrete scenarios: A is COLOR_KEYS[1], B is COLOR_KEYS[2]
ScenarioMixed ==
  << <<"red", "blue", "red", "blue">>, <<"blue", "red", "blue", "red">>, <<>>, <<>> >>

ScenarioComplete ==
  << <<"red", "red", "red", "red">>, <<"blue", "blue", "blue", "blue">>, <<>>, <<>> >>

ScenarioPartial == << <<"red", "blue">>, <<"blue", "red">>, <<>>, <<>> >>

\* the complete scenario without its empty tubes, and a deadlock without empty tubes
ScenarioAllFull ==
  << <<"red", "red", "red", "red">>, <<"blue", "blue", "blue", "blue">> >>

ScenarioDeadlock ==
  << <<"red", "blue", "red">>, <<"blue", "blue", "red", "blue">>, <<"red", "blue", "red", "blue">> >>

Scenarios ==
  {ScenarioMixed, ScenarioComplete, ScenarioPartial, ScenarioAllFull, ScenarioDeadlock}

\* the states the hash is exercised on: every colour name, few units
HashStates ==
  UNION {StatesOf({COLOR_KEYS[i] : i \in DOMAIN COLOR_KEYS}, n, HashUnits) : n \in 1..NumTubes}

\* the difficulty table, scaled to puzzles the search can be run on to the
\* end: two colours in one tube each with one or two empty tubes, one colour
\* in two tubes, one colour in nine tubes (past the solver's limit of 8
\* filled tubes), and three colours in one tube each
Difficulties ==
  {DifficultyParams(2, 1, 0, 0, 1), DifficultyParams(2, 1, 1, 0, 1),
   DifficultyParams(1, 2, 1, 0, 1), DifficultyParams(1, 9, 1, 0, 1),
   DifficultyParams(3, 1, 1, 0, 1)}

\* levels.ts:211: the candidates generateTubes can return, by difficulty
CandidatesOf ==
  [d \in Difficulties |-> generateTubes(d.colors, d.tubesPerColor, totalEmptyTubes(d))]

\* the candidates createLevel can generate for a difficulty
Candidates(d) == CandidatesOf[d]

\* the ceilings solve is run under: MAX_STATES, and a small one, which the
\* scaled puzzles can reach
Ceilings == {SmallCeiling, MAX_STATES}

\* the same for the solve of solver.ts, which levels.ts imports
OldCeilings == {SmallCeiling, MAX_STATES_OLD}

\* the states solve is run on: every candidate of every difficulty of at
\* most two colours, every state of NumTubes tubes of at most SolveUnits
\* units, and the scenarios
SolverStates ==
  UNION {Candidates(d) : d \in {e \in Difficulties : e.colors <= Cardinality(Colors)}}
    \cup StatesOf(Colors, NumTubes, SolveUnits) \cup Scenarios

(***************************************************************************)
(* State: the current puzzle state and a record of the last call           *)
(***************************************************************************)
VARIABLES
  curTubes, \* the current puzzle state, by value
  called,   \* "none", "pour", "solverPour" or "reorder": the last call made
  fromIndex, \* its arguments (0 before any call)
  toIndex,
  input,    \* the contents of its input arrays when it was called
  arrays,   \* the heap when it returned
  inRefs,   \* the array of references it was passed
  outRefs,  \* the array of references it returned
  difficulty,  \* createLevel: the parameters getDifficulty returned
  ceiling,     \* the state ceiling solve runs under
  solved,      \* what solve returns for each candidate of the difficulty
  attempt,     \* the loop counter
  candidate,   \* the tubes the last iteration of the loop generated
  generated,   \* the number of calls of generateTubes so far
  solveResult, \* what solve returned in the last iteration, if it was called
  level,       \* the level returned, once createLevel has returned
  game,        \* useGameState: the state held by useState
  overlay,     \* the mounted PourAnimationOverlay: "none", or where its run is
  stale,       \* the runs of unmounted overlays still executing, by position
  before,      \* the game state the last handler was called in
  tapped,      \* the index the last handler was called with (0: none)
  search       \* a run of solve: the locals of the function and its position

callVars == <<curTubes, called, fromIndex, toIndex, input, arrays, inRefs, outRefs>>

levelVars == <<difficulty, ceiling, solved, attempt, candidate, generated, solveResult, level>>

gameVars == <<game, overlay, stale, before, tapped>>

vars == <<curTubes, called, fromIndex, toIndex, input, arrays, inRefs, outRefs,
          difficulty, ceiling, solved, attempt, candidate, generated, solveResult, level,
          game, overlay, stale, before, tapped, search>>

\* createLevel has not been called
NoLevel == [none |-> TRUE]

\* solve was not called in the last iteration of the loop
NotInvoked == [notInvoked |-> TRUE]

\* no game is mounted
NoGame == [noGame |-> TRUE]

NoStale == [tilt |-> 0, drain |-> 0]

\* solve is not running step by step
NoSearch == [noSearch |-> TRUE]

NotSearching == search = NoSearch

NotPlaying ==
  /\ game = NoGame
  /\ overlay = "none"
  /\ stale = NoStale
  /\ before = NoGame
  /\ tapped = 0

NoCreateLevel ==
  /\ difficulty = NoLevel
  /\ ceiling = 0
  /\ solved = <<>>
  /\ attempt = 0
  /\ candidate = <<>>
  /\ generated = 0
  /\ solveResult = NotInvoked
  /\ level = NoLevel

TubeIndex == DOMAIN curTubes

InitFrom(states) ==
  /\ curTubes \in states
  /\ called = "none"
  /\ fromIndex = 0
  /\ toIndex = 0
  /\ input = curTubes
  /\ arrays = curTubes
  /\ inRefs = IdRefs(curTubes)
  /\ outRefs = IdRefs(curTubes)
  /\ NoCreateLevel
  /\ NotPlaying
  /\ NotSearching

Init == InitFrom(BoundedStates \cup Scenarios)

\* pour(tubes, f, t) without a mask, called on any pair of indices: pour
\* itself does not test canPour
PourCall(f, t) ==
  /\ LET r == pourOnHeap(curTubes, IdRefs(curTubes), f, t, NoMask)
     IN /\ arrays' = r.heap
        /\ outRefs' = r.tubes
        /\ curTubes' = Deref(r.heap, r.tubes)
  /\ called' = "pour"
  /\ fromIndex' = f
  /\ toIndex' = t
  /\ input' = curTubes
  /\ inRefs' = IdRefs(curTubes)
  /\ UNCHANGED levelVars
  /\ UNCHANGED gameVars
  /\ UNCHANGED search

\* pour(tubes, f, t) without a mask, called when canPour(tubes[f], tubes[t])
Pour(f, t) ==
  /\ canPour(curTubes[f], curTubes[t])
  /\ PourCall(f, t)

\* solverPour(state, f, t), called by solve for f # t, a non-empty source and
\* a destination that is not full and is empty or has the source's top colour
SolverPour(f, t) ==
  /\ f # t
  /\ canPour(curTubes[f], curTubes[t])
  /\ LET r == solverPourOnHeap(curTubes, IdRefs(curTubes), f, t)
     IN /\ arrays' = r.heap
        /\ outRefs' = r.tubes
        /\ curTubes' = Deref(r.heap, r.tubes)
  /\ called' = "solverPour"
  /\ fromIndex' = f
  /\ toIndex' = t
  /\ input' = curTubes
  /\ inRefs' = IdRefs(curTubes)
  /\ UNCHANGED levelVars
  /\ UNCHANGED gameVars
  /\ UNCHANGED search

\* any sequence of pours
Next == \E f \in TubeIndex, t \in TubeIndex : Pour(f, t)

Spec == Init /\ [][Next]_vars

\* one call of either pour function on an arbitrary state
NextCall ==
  /\ called = "none"
  /\ \/ \E f \in TubeIndex, t \in TubeIndex : Pour(f, t)
     \/ \E f \in TubeIndex, t \in TubeIndex : SolverPour(f, t)

SpecCall == Init /\ [][NextCall]_vars

\* one call of pour on an arbitrary state and an arbitrary pair of indices
NextEngine ==
  /\ called = "none"
  /\ \E f \in TubeIndex, t \in TubeIndex : PourCall(f, t)

SpecEngine == Init /\ [][NextEngine]_vars

\* the tubes of a state put in another order: tubes i and i+1 exchanged.
\* input keeps the state the reordering started from.
Reorder(i) ==
  /\ i + 1 \in TubeIndex
  /\ curTubes' = [curTubes EXCEPT ![i] = curTubes[i + 1], ![i + 1] = curTubes[i]]
  /\ called' = "reorder"
  /\ UNCHANGED <<fromIndex, toIndex, input, arrays, inRefs, outRefs>>
  /\ UNCHANGED levelVars
  /\ UNCHANGED gameVars
  /\ UNCHANGED search

NextHash == \E i \in TubeIndex : Reorder(i)

InitHash == InitFrom(HashStates)

SpecHash == InitHash /\ [][NextHash]_vars

\* part_003 solve expanding the current state: a pour its loops perform
SolveExpand(f, t) ==
  /\ called \in {"none", "solverPour"}
  /\ ~isLevelComplete(curTubes, NoMask)
  /\ solvePours(curTubes, f, t, TRUE, TRUE)
  /\ SolverPour(f, t)

\* solver.ts solve expanding the current state: a move of getValidMoves that
\* is not pruned
SolveOldExpand(f, t) ==
  /\ called \in {"none", "pour"}
  /\ ~isLevelComplete(curTubes, NoMask)
  /\ \E k \in DOMAIN getValidMoves(curTubes, NoMask) :
        /\ getValidMoves(curTubes, NoMask)[k] = [from |-> f, to |-> t]
        /\ ~solveOldSkips(curTubes, getValidMoves(curTubes, NoMask)[k])
  /\ Pour(f, t)

\* the states either search passes through, from the states solve is run on
NextSolve ==
  \/ \E f \in TubeIndex, t \in TubeIndex : SolveExpand(f, t)
  \/ \E f \in TubeIndex, t \in TubeIndex : SolveOldExpand(f, t)

InitSolve == InitFrom(SolverStates)

SpecSolve == InitSolve /\ [][NextSolve]_vars

(***************************************************************************)
(* solve run step by step: the position in its loops is part of the state  *)
(***************************************************************************)

\* the canonical key of the revision: hashState of part_003 or of solver.ts
searchKey(rev, state) ==
  IF rev = "part_003" THEN hashStateCompact(state) ELSE hashState(state)

\* solve up to its while loop (part_003:164-173, solver.ts:27-36). The
\* position: k is 0 before the loop, else the index of the state the for
\* loop is at; from and to are the indices of the inner loops of part_003
\* (to is 0 at the top of the loop over from); moves is the local of
\* solver.ts:43 and move the index of the loop over it. frontier records
\* every state that was put on a queue.
searchStart(rev, tubes, maxStates) ==
  IF isLevelComplete(tubes, NoMask)
  THEN [rev |-> rev, maxStates |-> maxStates, queue |-> <<>>, k |-> 0,
        from |-> 0, to |-> 0, moves |-> <<>>, move |-> 0,
        nextQueue |-> <<>>, visited |-> {}, depth |-> 0,
        result |-> SolveResult(TRUE, 0), frontier |-> <<>>]
  ELSE [rev |-> rev, maxStates |-> maxStates, queue |-> <<tubes>>, k |-> 0,
        from |-> 0, to |-> 0, moves |-> <<>>, move |-> 0,
        nextQueue |-> <<>>, visited |-> {searchKey(rev, tubes)}, depth |-> 0,
        result |-> Running, frontier |-> <<tubes>>]

\* the for loop takes queue[k] (part_003:179-181, solver.ts:42-43)
searchTake(s, k) ==
  [s EXCEPT !.k = k, !.from = 1, !.to = 0, !.move = 1,
            !.moves = IF s.rev = "solver.ts" /\ k \in DOMAIN s.queue
                      THEN getValidMoves(s.queue[k], NoMask)
                      ELSE <<>>]

\* part_003:236 and 175-177, solver.ts:73 and 38-40: queue = nextQueue after
\* the for loop, the while test, depth++ and a new nextQueue; the return of
\* part_003:239 and solver.ts:76 when the queue is empty
searchWhile(s) ==
  LET q == IF s.k = 0 THEN s.queue ELSE s.nextQueue
  IN IF Len(q) = 0
     THEN [s EXCEPT !.queue = q, !.result = SolveResult(FALSE, 0)]
     ELSE searchTake([s EXCEPT !.queue = q, !.depth = @ + 1, !.nextQueue = <<>>], 1)

\* mutant: the state is put on the next queue whether or not its key was
\* visited
searchPushVisited(s, next) ==
  IF isLevelComplete(next, NoMask)
  THEN [s EXCEPT !.result = SolveResult(TRUE, s.depth)]
  ELSE [s EXCEPT !.visited = @ \cup {searchKey(s.rev, next)},
                 !.nextQueue = Append(@, next),
                 !.frontier = Append(@, next)]

\* part_003:219-227, solver.ts:57-65: the state a pour gave is the goal, or
\* is put on the next queue unless its key was visited
searchPush(s, next) ==
  IF isLevelComplete(next, NoMask)
  THEN [s EXCEPT !.result = SolveResult(TRUE, s.depth)]
  ELSE IF searchKey(s.rev, next) \notin s.visited
  THEN [s EXCEPT !.visited = @ \cup {searchKey(s.rev, next)},
                 !.nextQueue = Append(@, next),
                 !.frontier = Append(@, next)]
  ELSE s

\* the for loop goes to the next state of the queue
searchNextState(s) == searchTake(s, s.k + 1)

\* part_003:181-196: the top of the loop over from; an empty or complete
\* source is passed over with continue
searchSource(s) ==
  IF s.from > Len(s.queue[s.k]) THEN searchNextState(s)
  ELSE IF solveSkipsSource(s.queue[s.k][s.from]) THEN [s EXCEPT !.from = @ + 1]
  ELSE [s EXCEPT !.to = 1]

\* part_003:198-228: one pass of the loop over to
searchTo(s) ==
  IF solvePours(s.queue[s.k], s.from, s.to, TRUE, TRUE)
  THEN CHOOSE pushed \in {[searchPush(s, next) EXCEPT !.to = @ + 1] :
                            next \in {solverPour(s.queue[s.k], s.from, s.to)}} : TRUE
  ELSE [s EXCEPT !.to = @ + 1]

\* part_003:230-232: the ceiling test after the loop over to
searchCeiling(s) ==
  IF Cardinality(s.visited) > s.maxStates
  THEN [s EXCEPT !.result = Null]
  ELSE [s EXCEPT !.from = @ + 1, !.to = 0]

\* solver.ts:45-66: one pass of the loop over the moves of getValidMoves
searchOldMove(s) ==
  LET state == s.queue[s.k]
      m == s.moves[s.move]
  IN IF solveOldSkips(state, m)
     THEN [s EXCEPT !.move = @ + 1]
     ELSE CHOOSE pushed \in {[searchPush(s, next) EXCEPT !.move = @ + 1] :
                               next \in {pour(state, m.from, m.to, NoMask)}} : TRUE

\* solver.ts:68-71: the ceiling test after the loop over the moves
searchOldCeiling(s) ==
  IF Cardinality(s.visited) > s.maxStates
  THEN [s EXCEPT !.result = Null]
  ELSE searchNextState(s)

\* the other variables while solve runs
SearchFrame ==
  /\ UNCHANGED callVars
  /\ UNCHANGED levelVars
  /\ UNCHANGED gameVars

\* solve is inside the for loop of the given revision
SearchAt(rev) ==
  /\ search.result = Running
  /\ search.rev = rev
  /\ search.k \in DOMAIN search.queue

\* the while test, after the for loop has passed the last state of the queue
SolveWhile ==
  /\ search.result = Running
  /\ search.k = 0 \/ search.k > Len(search.queue)
  /\ search' = searchWhile(search)
  /\ SearchFrame

SolveSource ==
  /\ SearchAt("part_003")
  /\ search.to = 0
  /\ search' = searchSource(search)
  /\ SearchFrame

SolveTo ==
  /\ SearchAt("part_003")
  /\ search.to \in DOMAIN search.queue[search.k]
  /\ search' = searchTo(search)
  /\ SearchFrame

SolveCeiling ==
  /\ SearchAt("part_003")
  /\ search.to > Len(search.queue[search.k])
  /\ search' = searchCeiling(search)
  /\ SearchFrame

SolveOldMove ==
  /\ SearchAt("solver.ts")
  /\ search.move \in DOMAIN search.moves
  /\ search' = searchOldMove(search)
  /\ SearchFrame

SolveOldCeiling ==
  /\ SearchAt("solver.ts")
  /\ search.move > Len(search.moves)
  /\ search' = searchOldCeiling(search)
  /\ SearchFrame

\* the states solve is run on step by step: every state of NumTubes tubes
\* of at most SolveUnits units, and the scenarios
SearchStates == StatesOf(Colors, NumTubes, SolveUnits) \cup Scenarios

\* solve is called on a state, under its ceiling or under a small one
InitSearch ==
  /\ \E tubes \in SearchStates :
       \/ \E m \in {SmallCeiling, MAX_STATES} :
            search = searchStart("part_003", tubes, m)
       \/ \E m \in {SmallCeiling, MAX_STATES_OLD} :
            search = searchStart("solver.ts", tubes, m)
  /\ curTubes = <<>>
  /\ called = "none"
  /\ fromIndex = 0
  /\ toIndex = 0
  /\ input = <<>>
  /\ arrays = <<>>
  /\ inRefs = <<>>
  /\ outRefs = <<>>
  /\ NoCreateLevel
  /\ NotPlaying

NextSearch ==
  \/ SolveWhile
  \/ SolveSource
  \/ SolveTo
  \/ SolveCeiling
  \/ SolveOldMove
  \/ SolveOldCeiling

SpecSearch == InitSearch /\ [][NextSearch]_vars

\* solve is one synchronous call: its loops always take their next step
SpecSearchFair == SpecSearch /\ WF_vars(NextSearch)

\* levels.ts:188-197: createLevel is called for a level of one of the
\* difficulties; no pour has been made.  solve is a function of its argument
\* and of the ceiling alone; its value at each candidate is worked out here,
\* once, and looked up where the loop calls it.
InitLevel ==
  /\ difficulty \in Difficulties
  /\ ceiling \in OldCeilings
  /\ solved = IF canSolve(difficulty)
              THEN [tubes \in Candidates(difficulty) |-> solveOldWith(tubes, ceiling)]
              ELSE <<>>
  /\ attempt = 0
  /\ candidate = <<>>
  /\ generated = 0
  /\ solveResult = NotInvoked
  /\ level = NoLevel
  /\ curTubes = <<>>
  /\ called = "none"
  /\ fromIndex = 0
  /\ toIndex = 0
  /\ input = <<>>
  /\ arrays = <<>>
  /\ inRefs = <<>>
  /\ outRefs = <<>>
  /\ NotPlaying
  /\ NotSearching

\* levels.ts:210-232: one iteration of the attempt loop
Attempt ==
  /\ level = NoLevel
  /\ attempt < maxAttempts(difficulty)
  /\ \E tubes \in Candidates(difficulty) :
       /\ candidate' = tubes
       /\ generated' = generated + 1
       /\ IF rejectedEarly(tubes)
          THEN /\ solveResult' = NotInvoked
               /\ attempt' = attempt + 1
               /\ level' = NoLevel
          ELSE IF canSolve(difficulty)
          THEN LET result == solved[tubes]
               IN  /\ solveResult' = result
                   /\ CASE solveOutcome(result) = "estimate" ->
                             /\ level' \in makeLevel(difficulty, tubes,
                                                     estimatePar(filledTubeCount(difficulty)))
                             /\ attempt' = attempt
                        [] solveOutcome(result) = "retry" ->
                             /\ level' = NoLevel
                             /\ attempt' = attempt + 1
                        [] solveOutcome(result) = "exact" ->
                             /\ level' \in makeLevel(difficulty, tubes, result.par)
                             /\ attempt' = attempt
          ELSE /\ solveResult' = NotInvoked
               /\ level' \in makeLevel(difficulty, tubes,
                                       estimatePar(filledTubeCount(difficulty)))
               /\ attempt' = attempt
  /\ UNCHANGED <<difficulty, ceiling, solved>>
  /\ UNCHANGED callVars
  /\ UNCHANGED gameVars
  /\ UNCHANGED search

\* mutant: the fallback returns the tubes the last iteration examined
FallbackLastExamined ==
  /\ level = NoLevel
  /\ attempt = maxAttempts(difficulty)
  /\ level' \in makeLevel(difficulty, candidate, estimatePar(filledTubeCount(difficulty)))
  /\ UNCHANGED <<difficulty, ceiling, solved, attempt, candidate, generated, solveResult>>
  /\ UNCHANGED callVars
  /\ UNCHANGED gameVars
  /\ UNCHANGED search

\* levels.ts:234-236: the loop is over; a fresh candidate is generated and
\* returned as it is
Fallback ==
  /\ level = NoLevel
  /\ attempt = maxAttempts(difficulty)
  /\ \E tubes \in Candidates(difficulty) :
       level' \in makeLevel(difficulty, tubes, estimatePar(filledTubeCount(difficulty)))
  /\ generated' = generated + 1
  /\ UNCHANGED <<difficulty, ceiling, solved, attempt, candidate, solveResult>>
  /\ UNCHANGED callVars
  /\ UNCHANGED gameVars
  /\ UNCHANGED search

NextLevel == Attempt \/ Fallback

SpecLevel == InitLevel /\ [][NextLevel]_vars

\* createLevel runs to its end: a step that can be taken is taken
SpecLevelFair == SpecLevel /\ WF_vars(NextLevel)

(***************************************************************************)
(* The game: components/Game.tsx mounts useGameState on a level and a      *)
(* PourAnimationOverlay while state.pourAnim is not null                   *)
(***************************************************************************)

\* the difficulties the game is played on: two colours in one tube each
\* and a paid tube, segments locked
GameDifficulties == {DifficultyParams(2, 1, 0, 50, 1)}

\* every level createLevel can return for them
LockedLevels ==
  UNION {UNION {makeLevel(d, tubes, estimatePar(filledTubeCount(d))) :
                  tubes \in generateTubes(d.colors, d.tubesPerColor, totalEmptyTubes(d))} :
           d \in GameDifficulties}

\* the tubes of the levels the whole game is explored on: the two colours
\* in halves, alternating, three to one, and sorted
GameTubes ==
  {<< <<"red", "red", "blue", "blue">>, <<"blue", "blue", "red", "red">>, <<>> >>,
   << <<"red", "blue", "red", "blue">>, <<"blue", "red", "blue", "red">>, <<>> >>,
   << <<"blue", "red", "red", "red">>, <<"red", "blue", "blue", "blue">>, <<>> >>,
   << <<"red", "red", "red", "red">>, <<"blue", "blue", "blue", "blue">>, <<>> >>}

GameLevels == {l \in LockedLevels : l.tubes \in GameTubes}

\* Game.tsx:110-113 (tube i of the source is tube i + 1 here)
isPaidTube(i) == i > Len(level.tubes) - level.paidTubes

isPaidLocked(i) == isPaidTube(i) /\ i \notin game.unlockedPaidTubes

\* Game.tsx:376: the overlay is rendered while state.pourAnim is not null.
\* When it is unmounted before its run is over, whether the run goes on
\* (its awaits resolve) or stops (they throw or never resolve) is for the
\* animation library to say: both are outcomes.
OverlayAfter(prev, next) ==
  IF prev.pourAnim = Null /\ next.pourAnim # Null
  THEN {[overlay |-> "tilt", stale |-> stale]}
  ELSE IF prev.pourAnim # Null /\ next.pourAnim = Null /\ overlay # "none"
  THEN {[overlay |-> "none", stale |-> stale]}
         \cup IF stale.tilt + stale.drain < MaxStale
              THEN {[overlay |-> "none",
                     stale |-> [stale EXCEPT ![overlay] = @ + 1]]}
              ELSE {}
  ELSE IF next.pourAnim = Null
  THEN {[overlay |-> "none", stale |-> stale]}
  ELSE {[overlay |-> overlay, stale |-> stale]}

\* a handler of the hook was called with index in the state game and set next
Handled(name, index, next) ==
  /\ game' = next
  /\ before' = game
  /\ called' = name
  /\ tapped' = index
  /\ UNCHANGED <<curTubes, fromIndex, toIndex, input, arrays, inRefs, outRefs>>
  /\ UNCHANGED levelVars
  /\ UNCHANGED search

\* the game is mounted on a level: useState(() => createGameState(...))
InitGameOn(levels) ==
  /\ level \in levels
  /\ game = createGameState(level.tubes, level.lockedMask)
  /\ overlay = "none"
  /\ stale = NoStale
  /\ before = NoGame
  /\ tapped = 0
  /\ difficulty = NoLevel
  /\ ceiling = 0
  /\ solved = <<>>
  /\ attempt = 0
  /\ candidate = <<>>
  /\ generated = 0
  /\ solveResult = NotInvoked
  /\ curTubes = <<>>
  /\ called = "none"
  /\ fromIndex = 0
  /\ toIndex = 0
  /\ input = <<>>
  /\ arrays = <<>>
  /\ inRefs = <<>>
  /\ outRefs = <<>>
  /\ NotSearching

\* Game.tsx:338-363: a tap on a rendered tube
SelectTube(index) ==
  /\ index \in DOMAIN game.tubes
  /\ ~isPaidLocked(index)
  /\ Len(game.moves) < MaxMoves
  /\ Handled("selectTube", index, selectTube(game, index))
  /\ \E o \in OverlayAfter(game, selectTube(game, index)) :
       overlay' = o.overlay /\ stale' = o.stale

\* PourAnimationOverlay.tsx:88-92: the run of the mounted overlay calls onPour
OverlayPour ==
  /\ overlay = "tilt"
  /\ Len(game.moves) < MaxMoves
  /\ Handled("commitPour", 0, commitPour(game))
  /\ overlay' = "drain"
  /\ stale' = stale

\* PourAnimationOverlay.tsx:116: the run of the mounted overlay calls onFinished
OverlayFinished ==
  /\ overlay = "drain"
  /\ Handled("finishPourAnim", 0, finishPourAnim(game))
  /\ overlay' = "none"
  /\ stale' = stale

\* the run of an unmounted overlay calls onPour
StaleOverlayPour ==
  /\ stale.tilt > 0
  /\ Len(game.moves) < MaxMoves
  /\ Handled("commitPour", 0, commitPour(game))
  /\ overlay' = overlay
  /\ stale' = [tilt |-> stale.tilt - 1, drain |-> stale.drain + 1]

\* the run of an unmounted overlay calls onFinished
StaleOverlayFinished ==
  /\ stale.drain > 0
  /\ Handled("finishPourAnim", 0, finishPourAnim(game))
  /\ \E o \in {p \in [overlay : {"none"}, stale : [tilt : 0..MaxStale, drain : 0..MaxStale]] :
                 LET rest == [stale EXCEPT !.drain = @ - 1]
                 IN \/ p.stale = rest
                    \/ /\ overlay # "none"
                       /\ p.stale = [rest EXCEPT ![overlay] = @ + 1]} :
       overlay' = o.overlay /\ stale' = o.stale

\* the run of an unmounted overlay stops
StaleOverlayStops ==
  /\ \E phase \in {"tilt", "drain"} :
       /\ stale[phase] > 0
       /\ stale' = [stale EXCEPT ![phase] = @ - 1]
  /\ UNCHANGED <<game, overlay, before, tapped>>
  /\ UNCHANGED callVars
  /\ UNCHANGED levelVars
  /\ UNCHANGED search

\* Game.tsx:407-413: the Undo button, enabled after a move and until the
\* level is complete
Undo ==
  /\ Len(game.moves) # 0
  /\ ~levelComplete(game)
  /\ game.undoCount < MaxUndo
  /\ Handled("undo", 0, undo(game))
  /\ \E o \in OverlayAfter(game, undo(game)) :
       overlay' = o.overlay /\ stale' = o.stale

\* Game.tsx:128-138 confirmBuyTube: the first locked paid tube is unlocked
UnlockPaidTube ==
  /\ \E i \in DOMAIN game.tubes :
       /\ isPaidLocked(i)
       /\ \A k \in DOMAIN game.tubes : k < i => ~isPaidLocked(k)
       /\ Handled("unlockPaidTube", i, unlockPaidTube(game, i))
  /\ UNCHANGED <<overlay, stale>>

\* useGameState.ts:19-25: the timer of the invalid-tap shake fires
ClearInvalidTube ==
  /\ game.invalidTube # 0
  /\ Handled("clearInvalidTube", 0, clearInvalidTube(game))
  /\ UNCHANGED <<overlay, stale>>

InitGame == InitGameOn(GameLevels)

NextGame ==
  \/ \E index \in 1..(NumTubes + 1) : SelectTube(index)
  \/ OverlayPour
  \/ OverlayFinished
  \/ StaleOverlayPour
  \/ StaleOverlayFinished
  \/ StaleOverlayStops
  \/ Undo
  \/ UnlockPaidTube
  \/ ClearInvalidTube

SpecGame == InitGame /\ [][NextGame]_vars

\* the player's pours alone, from every level: a tap, the pour at the
\* tilt, the end of the animation
NextPlay ==
  \/ UnlockPaidTube
  \/ \E index \in 1..(NumTubes + 1) : SelectTube(index)
  \/ OverlayPour
  \/ OverlayFinished

InitPlay == InitGameOn(LockedLevels)

SpecPlay == InitPlay /\ [][NextPlay]_vars

\* levels.ts:27-35 at the scale of the model: three colours in one tube
\* each, a free empty tube and a paid one, nothing locked
DeadlockDifficulty == DifficultyParams(3, 1, 1, 0, 1)

\* levels.ts:121-130: an order shuffleArray can leave the pool in
DeadlockPool ==
  CHOOSE p \in {<<"blue", "blue", "blue", "red",
                  "red", "red", "green", "green",
                  "red", "blue", "green", "green">>} :
    \A c \in {COLOR_KEYS[1], COLOR_KEYS[2], COLOR_KEYS[3]} :
      Cardinality({i \in DOMAIN p : p[i] = c})
        = Cardinality({i \in DOMAIN colorPool(3, 1) : colorPool(3, 1)[i] = c})

\* levels.ts:199-238: the level createLevel returns on that order
DeadlockLevels ==
  makeLevel(DeadlockDifficulty,
            sliceTubes(DeadlockPool, filledTubeCount(DeadlockDifficulty),
                       totalEmptyTubes(DeadlockDifficulty)),
            estimatePar(filledTubeCount(DeadlockDifficulty)))

InitDeadlock == InitGameOn(DeadlockLevels)

\* the game on that level: every tube of the level can be tapped once it
\* is rendered
NextDeadlock ==
  \/ \E index \in DOMAIN level.tubes : SelectTube(index)
  \/ OverlayPour
  \/ OverlayFinished
  \/ StaleOverlayPour
  \/ StaleOverlayFinished
  \/ StaleOverlayStops
  \/ Undo
  \/ UnlockPaidTube
  \/ ClearInvalidTube

SpecDeadlock == InitDeadlock /\ [][NextDeadlock]_vars

(***************************************************************************)
(* Vocabulary of the properties, stated apart from the code                *)
(***************************************************************************)

\* the number of units in all tubes of a state
RECURSIVE TotalUnits(_)
TotalUnits(ts) == IF Len(ts) = 0 THEN 0 ELSE Len(ts[1]) + TotalUnits(Tail(ts))

\* the length of the run of the top colour at the top of a non-empty tube
TopRun(t) ==
  CHOOSE k \in 1..Len(t) :
    /\ \A j \in (Len(t) - k + 1)..Len(t) : t[j] = t[Len(t)]
    /\ k = Len(t) \/ t[Len(t) - k] # t[Len(t)]

\* a tube holding exactly TUBE_CAPACITY units, all of one colour
FullOneColour(t) == Len(t) = TUBE_CAPACITY /\ \A j, k \in 1..Len(t) : t[j] = t[k]

\* every tube is empty or full of one colour
AllSorted(ts) == \A i \in DOMAIN ts : Len(ts[i]) = 0 \/ FullOneColour(ts[i])

\* n copies of colour c
Copies(c, n) == [k \in 1..n |-> c]

(***************************************************************************)
(* Properties of the pour engine                                           *)
(***************************************************************************)

\* C1: from a state whose tubes hold at most TUBE_CAPACITY units, after any
\* sequence of pours each made when canPour holds, every tube of every state
\* has a length between 0 and TUBE_CAPACITY.
C1_Capacity ==
  \A i \in DOMAIN curTubes : Len(curTubes[i]) >= 0 /\ Len(curTubes[i]) <= TUBE_CAPACITY

\* a pour between two tubes that the free space of the destination cut short
\* and that filled the destination
C1_Witness ==
  /\ called = "pour"
  /\ fromIndex # toIndex
  /\ Len(curTubes[toIndex]) = TUBE_CAPACITY
  /\ Len(input[toIndex]) < TUBE_CAPACITY
  /\ TopRun(input[fromIndex]) > TUBE_CAPACITY - Len(input[toIndex])

\* C2: for every pair (from, to) with canPour true, pour returns a state with
\* the same total number of units as its input.
C2_Conservation == called = "pour" => TotalUnits(curTubes) = TotalUnits(input)

\* C3: for from # to with canPour true, pour removes count = min(top run of
\* the source, TUBE_CAPACITY - length of the destination) units from the top
\* of the source and appends count units of the source's top colour to the
\* destination, the other units keeping their order.
C3_PourEffect ==
  (called = "pour" /\ fromIndex # toIndex) =>
    LET src == input[fromIndex]
        dst == input[toIndex]
        count == Min(TopRun(src), TUBE_CAPACITY - Len(dst))
    IN /\ count >= 1
       /\ curTubes[fromIndex] = SubSeq(src, 1, Len(src) - count)
       /\ curTubes[toIndex] = dst \o Copies(src[Len(src)], count)

\* the example: from [[A,B,A,B],[B,A,B,A],[],[]], pouring tube 0 into tube 2
\* gives tube 0 = [A,B,A] and tube 2 = [B]
C3_Witness ==
  /\ called = "pour"
  /\ input = ScenarioMixed
  /\ fromIndex = 1
  /\ toIndex = 3
  /\ curTubes[1] = <<"red", "blue", "red">>
  /\ curTubes[3] = <<"blue">>

\* C4: canPour(source, destination) is false when the source is empty, false
\* when the destination holds TUBE_CAPACITY units, true when the destination
\* is empty and the source is not, and otherwise true exactly when the two
\* top colours are equal.
C4_CanPour ==
  \A i, j \in DOMAIN curTubes :
    LET source == curTubes[i]
        destination == curTubes[j]
        can == canPour(source, destination)
    IN /\ Len(source) = 0 => ~can
       /\ Len(destination) = TUBE_CAPACITY => ~can
       /\ (Len(destination) = 0 /\ Len(source) > 0) => can
       /\ (Len(source) > 0 /\ Len(destination) > 0 /\ Len(destination) < TUBE_CAPACITY)
            => (can <=> source[Len(source)] = destination[Len(destination)])

\* one state showing a full destination with the source's top colour, an empty
\* source, an empty destination, and two non-full tubes of equal top colour
C4_Witness ==
  /\ \E i, j \in DOMAIN curTubes :
       /\ Len(curTubes[i]) > 0
       /\ Len(curTubes[j]) = TUBE_CAPACITY
       /\ topColor(curTubes[i]) = topColor(curTubes[j])
       /\ ~canPour(curTubes[i], curTubes[j])
       /\ canPour(curTubes[j], curTubes[i])
  /\ \E i, j \in DOMAIN curTubes : Len(curTubes[i]) = 0 /\ canPour(curTubes[j], curTubes[i])

\* C5: pour does not modify its input state, and every tube of the result
\* other than from and to is the input's tube.
C5_InputUntouched ==
  called \in {"pour", "solverPour"} =>
    /\ Deref(arrays, inRefs) = input
    /\ \A i \in DOMAIN input :
         i \notin {fromIndex, toIndex} => outRefs[i] = inRefs[i] /\ arrays[outRefs[i]] = input[i]

\* a pour that moved units while a third tube held liquid
C5_Witness ==
  /\ called = "pour"
  /\ fromIndex # toIndex
  /\ curTubes[fromIndex] # input[fromIndex]
  /\ \E i \in DOMAIN input : i \notin {fromIndex, toIndex} /\ Len(input[i]) > 0

\* C6: isLevelComplete(state), without a mask, is true if and only if every
\* tube is empty or holds exactly TUBE_CAPACITY units of one colour.
C6_LevelComplete == isLevelComplete(curTubes, NoMask) <=> AllSorted(curTubes)

\* a pour that completed a level holding liquid
C6_Witness ==
  /\ called = "pour"
  /\ ~isLevelComplete(input, NoMask)
  /\ isLevelComplete(curTubes, NoMask)
  /\ TotalUnits(curTubes) > 0

\* C7: getValidMoves(state) returns exactly the pairs (from, to) with
\* from # to, tubes[from] non-empty and not complete, and canPour true, each
\* once.
C7_ValidMoves ==
  LET moves == getValidMoves(curTubes, NoMask)
  IN /\ {moves[k] : k \in DOMAIN moves} =
          {[from |-> f, to |-> t] : <<f, t>> \in
             {p \in (DOMAIN curTubes) \X (DOMAIN curTubes) :
                /\ p[1] # p[2]
                /\ Len(curTubes[p[1]]) > 0
                /\ ~FullOneColour(curTubes[p[1]])
                /\ canPour(curTubes[p[1]], curTubes[p[2]])}}
     /\ \A j, k \in DOMAIN moves : j # k => moves[j] # moves[k]

\* a state with a complete tube, an empty tube and at least two moves
C7_Witness ==
  /\ \E i \in DOMAIN curTubes : FullOneColour(curTubes[i])
  /\ \E i \in DOMAIN curTubes : Len(curTubes[i]) = 0
  /\ Len(getValidMoves(curTubes, NoMask)) >= 2

\* no tube is empty, and no tube has the top colour of another tube that is
\* not full
NoEmptyNoSharedTop(ts) ==
  /\ \A i \in DOMAIN ts : Len(ts[i]) > 0
  /\ \A i, j \in DOMAIN ts :
       (i # j /\ Len(ts[j]) < TUBE_CAPACITY) => topColor(ts[i]) # topColor(ts[j])

\* C8 as stated: in every state with no empty tube and no tube sharing its top
\* colour with another non-full tube, isStuck is true and getValidMoves is
\* empty.
C8_Original ==
  NoEmptyNoSharedTop(curTubes) =>
    isStuck(curTubes, NoMask) /\ getValidMoves(curTubes, NoMask) = <<>>

\* C8 amended: in such a state getValidMoves is empty, and isStuck is true
\* unless every tube is full of one colour (the level is complete).
C8_StuckUnlessComplete ==
  NoEmptyNoSharedTop(curTubes) =>
    /\ getValidMoves(curTubes, NoMask) = <<>>
    /\ isStuck(curTubes, NoMask) <=> ~AllSorted(curTubes)

\* a pour that led into such a deadlock, with a full tube beside a tube that
\* is not full
C8_Witness ==
  /\ called = "pour"
  /\ NoEmptyNoSharedTop(curTubes)
  /\ isStuck(curTubes, NoMask)
  /\ \E i, j \in DOMAIN curTubes : Len(curTubes[i]) = TUBE_CAPACITY /\ Len(curTubes[j]) < TUBE_CAPACITY

(***************************************************************************)
(* Properties of the canonical hash                                        *)
(***************************************************************************)

\* the multiset of the tubes of a state: how often each tube content occurs
BagOf(ts) ==
  [t \in {ts[i] : i \in DOMAIN ts} |-> Cardinality({i \in DOMAIN ts : ts[i] = t})]

\* for every key hashState gives on HashStates, the multisets of tubes of
\* the states that have the key
BagsOfKey ==
  LET keyed == {<<hashState(o), BagOf(o)>> : o \in HashStates}
  IN  [k \in {e[1] : e \in keyed} |-> {e[2] : e \in {x \in keyed : x[1] = k}}]

CompactBagsOfKey ==
  LET keyed == {<<hashStateCompact(o), BagOf(o)>> : o \in HashStates}
  IN  [k \in {e[1] : e \in keyed} |-> {e[2] : e \in {x \in keyed : x[1] = k}}]

\* C9: for every state and every permutation of its tube order, hashState
\* gives the permuted state the key of the original state (input is the
\* state the reordering started from).
C9_PermutationInvariant ==
  /\ hashState(curTubes) = hashState(input)
  /\ hashStateCompact(curTubes) = hashStateCompact(input)

\* three tubes, none left in its place
C9_Witness ==
  /\ called = "reorder"
  /\ Len(curTubes) >= 3
  /\ \A i \in DOMAIN curTubes : curTubes[i] # input[i]

\* C10: two states have equal keys only if they hold the same multiset of
\* tubes: every state of HashStates that has the key of the current state
\* holds the current state's multiset of tubes.
C10_KeyDeterminesBag ==
  /\ BagsOfKey[hashState(curTubes)] = {BagOf(curTubes)}
  /\ CompactBagsOfKey[hashStateCompact(curTubes)] = {BagOf(curTubes)}

\* two different states with one key: a state of several units and its
\* reordering
C10_Witness ==
  /\ called = "reorder"
  /\ curTubes # input
  /\ hashState(curTubes) = hashState(input)
  /\ hashStateCompact(curTubes) = hashStateCompact(input)
  /\ \E i, j \in DOMAIN curTubes : i # j /\ Len(curTubes[i]) >= 2 /\ Len(curTubes[j]) = 0


(***************************************************************************)
(* Claims about the solver                                                 *)
(***************************************************************************)

\* the states one legal pour leads to: from # to and canPour true
LegalPours(ts) ==
  {pour(ts, p[1], p[2], NoMask) :
     p \in {q \in (DOMAIN ts) \X (DOMAIN ts) :
              q[1] # q[2] /\ canPour(ts[q[1]], ts[q[2]])}}

\* the least number of legal pours from a state of frontier (all at distance
\* d from the start) to a state with every tube empty or full of one colour;
\* -1 when no such state can be reached
RECURSIVE LegalDistFrom(_, _, _)
LegalDistFrom(frontier, seen, d) ==
  IF \E s \in frontier : AllSorted(s) THEN d
  ELSE LET next == UNION {LegalPours(s) : s \in frontier} \ seen
       IN IF next = {} THEN -1
          ELSE LegalDistFrom(next, seen \cup next, d + 1)

ShortestSolution(ts) == LegalDistFrom({ts}, {ts}, 0)


\* C11: when solve returns {solvable: true, par: p}, p is the least number of
\* legal pours from the input to a complete state, and p is 0 exactly when
\* the input is complete; for both versions of solve, on every state the
\* search is started from.
C11_ParIsShortest ==
  called = "none" =>
    LET new == solve(curTubes)
        old == solveOld(curTubes)
        least == ShortestSolution(curTubes)
    IN /\ new # Null /\ old # Null
       /\ new.solvable => new.par = least
       /\ old.solvable => old.par = least
       /\ (new.solvable /\ new.par = 0) <=> AllSorted(curTubes)
       /\ (old.solvable /\ old.par = 0) <=> AllSorted(curTubes)

\* a candidate of two mixed tubes and two empty tubes that needs 7 pours
C11_Witness ==
  /\ called = "none"
  /\ Len(curTubes) = 4
  /\ solve(curTubes) = SolveResult(TRUE, 7)
  /\ ShortestSolution(curTubes) = 7


\* the ceilings the searches are run with: the code's, and a small one
\* C12: solve returns {solvable: false, par: 0} only when no complete state
\* can be reached by legal pours, and a search that the ceiling cuts off
\* returns null: with any ceiling the result is the result of the search with
\* the code's ceiling, or null.
C12_UnsolvableIsProved ==
  called = "none" =>
    /\ \A m \in Ceilings :
         LET r == solveWith(curTubes, TRUE, TRUE, m)
         IN /\ r = SolveResult(FALSE, 0) => ShortestSolution(curTubes) = -1
            /\ r \in {solve(curTubes), Null}
    /\ \A m \in OldCeilings :
         LET r == solveOldWith(curTubes, m)
         IN /\ r = SolveResult(FALSE, 0) => ShortestSolution(curTubes) = -1
            /\ r \in {solveOld(curTubes), Null}

\* a solvable state and an unsolvable state, each cut off by the small ceiling
C12_Witness ==
  /\ called = "none"
  /\ solveWith(curTubes, TRUE, TRUE, SmallCeiling) = Null
  /\ solve(curTubes) = SolveResult(FALSE, 0)
  /\ ShortestSolution(curTubes) = -1
  /\ solveWith(ScenarioMixed, TRUE, TRUE, SmallCeiling) = Null
  /\ solve(ScenarioMixed).solvable

\* C13: the solver with both prunings, with either one, and with none give
\* one verdict on every puzzle searched to the end; so does the older solve,
\* which has the first pruning only.
C13_PruningKeepsVerdict ==
  called = "none" =>
    /\ \A pointless \in BOOLEAN, symmetry \in BOOLEAN :
         solveWith(curTubes, pointless, symmetry, MAX_STATES).solvable
           = solve(curTubes).solvable
    /\ solveOld(curTubes).solvable = solve(curTubes).solvable

\* a solvable puzzle where the first expansion already prunes a pour into a
\* later empty tube, and an unsolvable one with two empty tubes
C13_Witness ==
  /\ called = "none"
  /\ solve(curTubes).solvable
  /\ \E f \in DOMAIN curTubes, t \in DOMAIN curTubes :
        /\ solvePours(curTubes, f, t, TRUE, FALSE)
        /\ solveSkipsLaterEmpty(curTubes, f, t)
  /\ ~solve(ScenarioPartial).solvable

\* C14: while solve expands a state, a pour into an empty tube goes to the
\* lowest-index empty tube of that state (input is the state expanded).
C14_FirstEmptyOnly ==
  (called \in {"pour", "solverPour"} /\ Len(input[toIndex]) = 0) =>
    \A e \in DOMAIN input : Len(input[e]) = 0 => toIndex <= e

\* the same for the solve of part_003 alone
C14_FirstEmptyInPart003 ==
  (called = "solverPour" /\ Len(input[toIndex]) = 0) =>
    \A e \in DOMAIN input : Len(input[e]) = 0 => toIndex <= e

\* C15 as stated: solve applied to [[A,B],[B,A],[],[]] returns
\* {solvable: true, par: 2}.
C15_Original ==
  (called = "none" /\ curTubes = ScenarioPartial) =>
    solve(curTubes) = SolveResult(TRUE, 2)

\* C15: solve applied to [[A,B],[B,A],[],[]] returns {solvable: false,
\* par: 0}, as does the older solve: a tube is complete only with
\* TUBE_CAPACITY units, and the state holds two units of each colour.
C15_PartialIsUnsolvable ==
  (called = "none" /\ curTubes = ScenarioPartial) =>
    /\ solve(curTubes) = SolveResult(FALSE, 0)
    /\ solveOld(curTubes) = SolveResult(FALSE, 0)

\* solve is run on the scenario, from which no legal pours lead to a
\* complete state
C15_Witness ==
  /\ called = "none"
  /\ curTubes = ScenarioPartial
  /\ ShortestSolution(curTubes) = -1

(***************************************************************************)
(* createLevel                                                             *)
(***************************************************************************)

\* C17: a candidate that is complete or holds a filled tube of one colour is
\* rejected without a call of solve, so a level returned from inside the
\* loop is neither complete nor holds such a tube
C17_RejectedBeforeSolver ==
  LET uniform(tubes) ==
        \E i \in DOMAIN tubes :
          /\ Len(tubes[i]) = TUBE_CAPACITY
          /\ \A j \in DOMAIN tubes[i] : tubes[i][j] = tubes[i][1]
  IN /\ (candidate # <<>> /\ (isLevelComplete(candidate, NoMask) \/ uniform(candidate)))
          => /\ solveResult = NotInvoked
             /\ level # NoLevel => attempt = maxAttempts(difficulty)
     /\ (level # NoLevel /\ attempt < maxAttempts(difficulty))
          => /\ ~isLevelComplete(level.tubes, NoMask)
             /\ ~uniform(level.tubes)

\* a candidate with a filled tube of one colour that is not complete has
\* been rejected, after an earlier rejection
C17_Witness ==
  /\ attempt > 1
  /\ level = NoLevel
  /\ solveResult = NotInvoked
  /\ ~isLevelComplete(candidate, NoMask)
  /\ hasDuplicateTube(candidate)

\* C18: a level returned for a candidate that solve reported solvable has
\* the par solve returned for its tubes, and that par is at least 3
C18_ExactPar ==
  (level # NoLevel /\ attempt < maxAttempts(difficulty)
                  /\ solveResult \notin {NotInvoked, Null})
    => /\ solveResult.solvable
       /\ level.tubes = candidate
       /\ solveResult = solved[level.tubes]
       /\ level.par = solved[level.tubes].par
       /\ level.par >= 3

\* a candidate solved in 7 pours has been returned after a rejected attempt
C18_Witness ==
  /\ level # NoLevel
  /\ attempt = 1
  /\ solveResult = SolveResult(TRUE, 7)
  /\ level.par = 7

\* C19: a candidate for which solve returned null is returned at once, with
\* the estimated par
C19_NullAccepted ==
  solveResult = Null
    => /\ level # NoLevel
       /\ level.tubes = candidate
       /\ level.par = estimatePar(filledTubeCount(difficulty))

\* solve has returned null under the small ceiling in the third iteration
C19_Witness ==
  /\ solveResult = Null
  /\ ceiling = SmallCeiling
  /\ attempt = 2
  /\ generated = 3
  /\ level # NoLevel
  /\ level.tubes = candidate

\* C20: createLevel generates at most 51 candidates when the solver is used
\* and 21 otherwise, and returns a level in the end
C20_Terminates ==
  /\ [](generated <= IF canSolve(difficulty) THEN 51 ELSE 21)
  /\ <>(level # NoLevel)

\* every attempt has been rejected and the fallback has returned a level
C20_Witness ==
  /\ level # NoLevel
  /\ attempt = maxAttempts(difficulty)
  /\ generated = maxAttempts(difficulty) + 1

\* C21: a tube list generateTubes returns is colors * tubesPerColor tubes of
\* TUBE_CAPACITY units followed by the empty tubes, and holds each of the
\* first colors colours tubesPerColor * TUBE_CAPACITY times
C21_GeneratedShape ==
  LET shaped(tubes) ==
        /\ Len(tubes) = filledTubeCount(difficulty) + totalEmptyTubes(difficulty)
        /\ \A i \in DOMAIN tubes :
             Len(tubes[i]) = IF i <= filledTubeCount(difficulty) THEN TUBE_CAPACITY ELSE 0
        /\ \A c \in 1..Len(COLOR_KEYS) :
             Cardinality({<<i, j>> \in (DOMAIN tubes) \X (1..TUBE_CAPACITY) :
                            j <= Len(tubes[i]) /\ tubes[i][j] = COLOR_KEYS[c]})
               = IF c <= difficulty.colors
                 THEN difficulty.tubesPerColor * TUBE_CAPACITY ELSE 0
  IN /\ candidate # <<>> => shaped(candidate)
     /\ level # NoLevel => shaped(level.tubes)

\* a candidate whose two filled tubes both hold both colours, in an order
\* the shuffle reaches only by several exchanges
C21_Witness ==
  /\ candidate = << <<"blue", "red", "blue", "red">>, <<"red", "blue", "red", "blue">>, <<>> >>
  /\ generated = 1

\* createLevel returned from the fallback after the loop: the loop returns
\* only from an iteration entered with attempt < maxAttempts, and leaves
\* attempt as it is
ReturnedByFallback == level # NoLevel /\ attempt = maxAttempts(difficulty)

\* C26 as stated: a level returned when every attempt was rejected has the
\* tubes of the last candidate the attempt loop generated and examined.
C26_Original == ReturnedByFallback => level.tubes = candidate

\* C26: when every attempt was rejected, the level returned has the tubes of
\* one more call of generateTubes made after the loop (the call after the
\* maxAttempts calls of the loop, so the last configuration generated), taken
\* without any test and with the estimated par.
C26_FallbackIsFresh ==
  ReturnedByFallback =>
    /\ generated = maxAttempts(difficulty) + 1
    /\ level.tubes \in Candidates(difficulty)
    /\ level.par = estimatePar(filledTubeCount(difficulty))

\* a fallback level whose tubes are not those of the last rejected candidate,
\* and have a duplicate tube, for which the loop would have rejected them
C26_Witness ==
  /\ ReturnedByFallback
  /\ level.tubes # candidate
  /\ hasDuplicateTube(level.tubes)
  /\ ~isLevelComplete(candidate, NoMask)

\* the states solveWithMetrics explored that have no legal pour and are not
\* complete
TrueDeadEnds(explored) ==
  {k \in DOMAIN explored :
     LegalPours(explored[k]) = {} /\ ~isLevelComplete(explored[k], NoMask)}

\* C28: the deadEnds solveWithMetrics reports is the number of the states it
\* explored that have no legal pour and are not complete; no state that
\* satisfies isLevelComplete is counted.
C28_DeadEndsExact ==
  (called = "none" /\ ~isLevelComplete(curTubes, NoMask))
    => solveWithMetrics(curTubes).deadEnds
         = Cardinality(TrueDeadEnds(metricsRun(curTubes, MAX_STATES).explored))

\* C29: under either ceiling, when neither search hits it, solveWithMetrics
\* reports the solvable flag and the par that solve returns; and when it
\* reports solvable false with hitLimit false, no complete state can be
\* reached by legal pours.
C29_MetricsAgreesWithSolve ==
  called = "none" =>
    \A c \in Ceilings :
      LET m == solveWithMetricsWith(curTubes, c)
          r == solveWith(curTubes, TRUE, TRUE, c)
      IN /\ (r # Null /\ ~m.hitLimit) => (m.solvable = r.solvable /\ m.par = r.par)
         /\ (~m.solvable /\ ~m.hitLimit) => ShortestSolution(curTubes) = -1

\* a candidate both searches solve in 7 pours under MAX_STATES, on which
\* solveWithMetrics hits the small ceiling
C29_Witness ==
  /\ called = "none"
  /\ solve(curTubes) = SolveResult(TRUE, 7)
  /\ solveWithMetrics(curTubes).solvable
  /\ solveWithMetrics(curTubes).par = 7
  /\ ~solveWithMetrics(curTubes).hitLimit
  /\ solveWithMetricsWith(curTubes, SmallCeiling).hitLimit

\* the last call was a pour of a tube whose whole contents are one colour
\* into an empty tube: the move solve prunes (solver.ts:45-53)
RelocatedUniformTube ==
  /\ called = "pour"
  /\ Len(input[toIndex]) = 0
  /\ \A i \in DOMAIN input[fromIndex] : input[fromIndex][i] = input[fromIndex][1]

\* C30: a pour of a tube whose whole contents are one colour into an empty
\* tube returns a state with the canonical key of the state it was given.
C30_PrunedPourKeepsKey ==
  RelocatedUniformTube => hashState(curTubes) = hashState(input)

\* two red units have been poured into an empty tube beside a mixed tube:
\* the state is another one, its key is the same
C30_Witness ==
  /\ RelocatedUniformTube
  /\ input[fromIndex] = <<"red", "red">>
  /\ curTubes[toIndex] = <<"red", "red">>
  /\ curTubes # input
  /\ \E i \in DOMAIN curTubes : Len(curTubes[i]) > 1 /\ curTubes[i][1] # curTubes[i][2]
  /\ hashState(curTubes) = hashState(input)

\* Game.tsx:109-113: the tubes rendered at the start of a level, all but the
\* trailing paidTubes
AccessibleTubes(l) == SubSeq(l.tubes, 1, Len(l.tubes) - l.paidTubes)

\* createLevel returned from the loop a level that solve reported solvable
SolverVerified ==
  /\ level # NoLevel
  /\ attempt < maxAttempts(difficulty)
  /\ solveResult \notin {NotInvoked, Null}

\* C27: a level returned on the solver-verified path can be completed with
\* the tubes accessible at its start, the trailing paid tubes left locked,
\* and its par is the least number of pours that completes those tubes.
C27_PlayableWithoutPaidTube ==
  SolverVerified => ShortestSolution(AccessibleTubes(level)) = level.par

(***************************************************************************)
(* Claims about the game                                                   *)
(***************************************************************************)

\* C23: pour called on a pair of tubes for which canPour is false returns
\* the state it was given (pour returns an array of tubes and nothing else:
\* it has no value that signals a rejection, and it does not throw).
C23_IllegalPourChangesNothing ==
  (called = "pour" /\ ~canPour(input[fromIndex], input[toIndex]))
    => curTubes = input

\* a game that stands at tubes and lockedMask, nothing selected or animated
Position(tubes, lockedMask) ==
  [createGameState(tubes, lockedMask) EXCEPT !.lockedMask = lockedMask]

\* the player taps tube from, then tube to, and the animation runs to its end
PlayerPour(tubes, lockedMask, from, to) ==
  finishPourAnim(commitPour(selectTube(selectTube(Position(tubes, lockedMask), from), to)))

\* the positions one pour of the player leads to
PlayerMoves(p) ==
  {[tubes |-> g.tubes, lockedMask |-> g.lockedMask] :
     g \in {h \in {PlayerPour(p.tubes, p.lockedMask, q[1], q[2]) :
                     q \in {r \in (DOMAIN p.tubes) \X (DOMAIN p.tubes) : r[1] # r[2]}} :
              Len(h.moves) = 1}}

\* whether the player can reach a position with isLevelComplete true
RECURSIVE PlayerReaches(_, _)
PlayerReaches(frontier, seen) ==
  IF \E p \in frontier : isLevelComplete(p.tubes, p.lockedMask) THEN TRUE
  ELSE LET next == UNION {PlayerMoves(p) : p \in frontier} \ seen
       IN IF next = {} THEN FALSE
          ELSE PlayerReaches(next, seen \cup next)

PlayerCanComplete(tubes, lockedMask) ==
  PlayerReaches({[tubes |-> tubes, lockedMask |-> lockedMask]},
                {[tubes |-> tubes, lockedMask |-> lockedMask]})

\* C22: whenever a complete state can be reached from the tubes of a level by
\* legal pours without a mask, the player, who pours with the mask, has the
\* tops revealed after each pour and needs every tube free of locked
\* segments, can reach a state with isLevelComplete(tubes, lockedMask) true;
\* for every level createLevel can return and every mask generateLockedMask
\* can give it.
C22_LockingKeepsSolvable ==
  (called = "none" /\ ShortestSolution(level.tubes) # -1)
    => PlayerCanComplete(game.tubes, game.lockedMask)

\* a sorted level with the bottom of the red tube locked: the player has
\* poured the red tube out into the bought tube in two pours, and the level
\* is complete
C22_Witness ==
  /\ level.tubes[1] = <<"red", "red", "red", "red">>
  /\ level.lockedMask[1] = <<TRUE, FALSE, FALSE, FALSE>>
  /\ ~SomeLocked(level.lockedMask[2])
  /\ ShortestSolution(level.tubes) = 0
  /\ ~isLevelComplete(level.tubes, level.lockedMask)
  /\ Len(game.moves) = 2
  /\ game.pourAnim = Null
  /\ isLevelComplete(game.tubes, game.lockedMask)

\* the last call was selectTube(tapped) with another tube selected and
\* canPour(selected, tapped) false: an illegal pour request
IllegalRequest ==
  /\ called = "selectTube"
  /\ before.selectedTube # 0
  /\ before.selectedTube # tapped
  /\ ~canPour(before.tubes[before.selectedTube], before.tubes[tapped])

\* C24: an illegal pour request leaves tubes, moves, history and lockedMask
\* as they were and starts no pour animation.
C24_IllegalRequestRejected ==
  IllegalRequest =>
    /\ game.tubes = before.tubes
    /\ game.moves = before.moves
    /\ game.history = before.history
    /\ game.lockedMask = before.lockedMask
    /\ game.pourAnim = Null

\* after a pour, with a tube selected, the player tapped a full tube of one
\* colour, which shakes
C24_Witness ==
  /\ IllegalRequest
  /\ Len(before.moves) > 0
  /\ Len(before.tubes[tapped]) = TUBE_CAPACITY
  /\ game.invalidTube = tapped
  /\ game.selectedTube = 0

\* the last call was commitPour during a pour animation
Committed == called = "commitPour" /\ before.pourAnim # Null

\* the places in the source tube of the units the committed pour took away
TransferredFrom ==
  (Len(game.tubes[before.pourAnim.fromIndex]) + 1)
     .. Len(before.tubes[before.pourAnim.fromIndex])

\* C25: every unit a committed pour moved was unlocked in the mask of the
\* source tube when the pour was committed, in every game state commitPour
\* can be called in.
C25_LockedNeverMoves ==
  Committed =>
    \A i \in TransferredFrom :
      ~Locked(before.lockedMask[before.pourAnim.fromIndex], i)

\* a pour out of a full tube of one colour whose bottom segment was locked:
\* three units went, the locked one stayed and is now revealed
C25_Witness ==
  /\ Committed
  /\ before.lockedMask[before.pourAnim.fromIndex] = <<TRUE, FALSE, FALSE, FALSE>>
  /\ before.tubes[before.pourAnim.fromIndex] = <<"red", "red", "red", "red">>
  /\ TransferredFrom = 2..4
  /\ game.lockedMask[before.pourAnim.fromIndex] = <<FALSE>>


(***************************************************************************)
(* Claims about the solver's symmetry of empty tubes                       *)
(***************************************************************************)

\* solverPour has poured a tube into an empty tube of a state that has at
\* least one more empty tube
PouredIntoOneOfSeveralEmpty ==
  /\ called = "solverPour"
  /\ Len(input[toIndex]) = 0
  /\ \E e \in DOMAIN input : e # toIndex /\ Len(input[e]) = 0

\* C31: when a state has two or more empty tubes, pouring a non-empty source
\* tube into one empty tube and pouring it into any other empty tube give
\* states with the same canonical key (hashState of part_003).
C31_EmptyTubesInterchangeable ==
  PouredIntoOneOfSeveralEmpty =>
    \A e \in DOMAIN input :
      Len(input[e]) = 0 =>
        hashStateCompact(solverPour(input, fromIndex, e)) = hashStateCompact(curTubes)

\* the top run of a mixed tube has been poured into the second of two empty
\* tubes; pouring it into the first gives another state with the same key
C31_Witness ==
  /\ PouredIntoOneOfSeveralEmpty
  /\ Len(curTubes[fromIndex]) > 0
  /\ \E e \in DOMAIN input :
       /\ e # toIndex
       /\ Len(input[e]) = 0
       /\ solverPour(input, fromIndex, e) # curTubes
       /\ hashStateCompact(solverPour(input, fromIndex, e)) = hashStateCompact(curTubes)



(***************************************************************************)
(* Claims about the termination of the solver                              *)
(***************************************************************************)

\* no two states that were put on a queue have the same canonical key
FrontierOnce ==
  search # NoSearch =>
    Cardinality({searchKey(search.rev, search.frontier[i]) : i \in DOMAIN search.frontier})
      = Len(search.frontier)

\* solve has returned: a goal depth, unsolvable after the frontier was
\* exhausted, or null after the visited set passed the ceiling
SearchEnded ==
  /\ search # NoSearch
  /\ \/ /\ search.result = SolveResult(TRUE, search.depth)
     \/ /\ search.result = SolveResult(FALSE, 0)
        /\ Len(search.queue) = 0
     \/ /\ search.result = Null
        /\ Cardinality(search.visited) > search.maxStates

\* C32: solve terminates on every input: each canonical state enters the
\* frontier at most once, and every run ends by returning a goal depth, by
\* exhausting the frontier, or by exceeding the ceiling.
C32_SolveTerminates == []FrontierOnce /\ <>SearchEnded

\* a run that exhausted the frontier after three passes or more, in which a
\* state of the frontier has a pour back to the key of an earlier one
C32_Witness ==
  /\ search # NoSearch
  /\ search.result = SolveResult(FALSE, 0)
  /\ search.depth >= 3
  /\ \E i \in DOMAIN search.frontier, j \in DOMAIN search.frontier,
        f \in DOMAIN search.frontier[1], t \in DOMAIN search.frontier[1] :
       /\ j < i
       /\ f # t
       /\ canPour(search.frontier[i][f], search.frontier[i][t])
       /\ searchKey(search.rev, solverPour(search.frontier[i], f, t))
            = searchKey(search.rev, search.frontier[j])
       /\ solverPour(search.frontier[i], f, t) # search.frontier[j]



(***************************************************************************)
(* Claims about taps, the overlay's callbacks and the history              *)
(***************************************************************************)

\* selectTube was called while a pour animation was pending or on a
\* complete level
TappedWhileBlocked ==
  /\ called = "selectTube"
  /\ \/ before.pourAnim # Null
     \/ isLevelComplete(before.tubes, before.lockedMask)

\* C33: while a pour animation is pending (pourAnim is non-null), and once
\* the level is complete, selectTube leaves the whole game state unchanged.
C33_TapsBlocked == TappedWhileBlocked => game = before

\* after the pour was committed and before the animation finished, a tube
\* that holds liquid and is not complete was tapped on a level that is not
\* complete: nothing changed
C33_Witness ==
  /\ called = "selectTube"
  /\ before.pourAnim # Null
  /\ Len(before.moves) > 0
  /\ ~isLevelComplete(before.tubes, before.lockedMask)
  /\ Len(before.tubes[tapped]) > 0
  /\ ~isTubeComplete(before.tubes[tapped], before.lockedMask[tapped])
  /\ game = before

\* a tube was tapped on a complete level after the animation had finished
C33_WitnessComplete ==
  /\ called = "selectTube"
  /\ before.pourAnim = Null
  /\ isLevelComplete(before.tubes, before.lockedMask)
  /\ Len(before.tubes[tapped]) > 0
  /\ game = before



\* commitPour has changed the tubes
CommitChangedTubes == called = "commitPour" /\ game.tubes # before.tubes

\* C34: under any interleaving of taps, the overlay's callbacks, undo and
\* unlockPaidTube, every change commitPour makes to tubes is one pour between
\* two different tubes for which canPour held on the tubes immediately
\* before the change, and a pour accepted by selectTube is applied at most
\* once: the source and the destination are still as selectTube recorded
\* them in pourAnim when the pour is applied.
C34_CommitIsOneLegalPour ==
  CommitChangedTubes =>
    /\ before.pourAnim # Null
    /\ before.pourAnim.fromIndex # before.pourAnim.toIndex
    /\ canPour(before.tubes[before.pourAnim.fromIndex],
               before.tubes[before.pourAnim.toIndex])
    /\ game.tubes = pour(before.tubes, before.pourAnim.fromIndex,
                         before.pourAnim.toIndex, before.lockedMask)
    /\ before.tubes[before.pourAnim.fromIndex] = before.pourAnim.sourceTubeBefore
    /\ Len(before.tubes[before.pourAnim.toIndex]) = before.pourAnim.destTubeLength



\* the tubes and the mask after the moves are applied in order with the
\* lock-aware pour and the reveal of commitPour
RECURSIVE Replay(_, _, _)
Replay(tubes, lockedMask, moves) ==
  IF Len(moves) = 0 THEN [tubes |-> tubes, lockedMask |-> lockedMask]
  ELSE LET newTubes == pour(tubes, moves[1].from, moves[1].to, lockedMask)
       IN Replay(newTubes,
                 revealTopSegments(lockedMask, newTubes, {moves[1].from, moves[1].to}),
                 Tail(moves))

\* C35: in every reachable game state moves, history and lockedMaskHistory
\* have the same length, and tubes is the result of applying the recorded
\* moves in order, with the lock-aware pour, to the level's initial tubes.
C35_TubesAreReplayOfMoves ==
  /\ Len(game.moves) = Len(game.history)
  /\ Len(game.moves) = Len(game.lockedMaskHistory)
  /\ game.tubes = Replay(level.tubes,
                         createGameState(level.tubes, level.lockedMask).lockedMask,
                         game.moves).tubes

\* two pours were committed on a level with locked segments and the second
\* was undone: one move is recorded and the tubes are not the initial ones
C35_Witness ==
  /\ called = "undo"
  /\ Len(before.moves) = 2
  /\ Len(game.moves) = 1
  /\ game.tubes # level.tubes
  /\ \E i \in DOMAIN level.lockedMask : SomeLocked(level.lockedMask[i])



\* C36: if commitPour takes the game from S to S', an undo that follows at
\* once restores tubes and lockedMask to their values in S, removes the last
\* entry of moves and of both histories, clears selectedTube and pourAnim and
\* increases undoCount by one; undo with an empty history changes nothing.
C36_UndoRestores ==
  /\ Committed =>
       /\ undo(game).tubes = before.tubes
       /\ undo(game).lockedMask = before.lockedMask
       /\ undo(game).moves = before.moves
       /\ undo(game).history = before.history
       /\ undo(game).lockedMaskHistory = before.lockedMaskHistory
       /\ undo(game).selectedTube = 0
       /\ undo(game).pourAnim = Null
       /\ undo(game).undoCount = game.undoCount + 1
  /\ game # NoGame /\ Len(game.history) = 0 => undo(game) = game

\* the second pour of a game was committed, it moved liquid and revealed a
\* locked segment, and the Undo button is enabled
C36_Witness ==
  /\ Committed
  /\ Len(game.moves) = 2
  /\ game.tubes # before.tubes
  /\ game.lockedMask # before.lockedMask
  /\ ~levelComplete(game)
  /\ undo(game).tubes = before.tubes
  /\ undo(game).lockedMask = before.lockedMask



\* the mask of one tube: as long as the tube, its top unlocked, its locked
\* positions a block at the bottom
MaskWellFormed(tube, tubeMask) ==
  /\ Len(tubeMask) = Len(tube)
  /\ Len(tube) > 0 => ~tubeMask[Len(tube)]
  /\ \A j \in DOMAIN tubeMask, k \in DOMAIN tubeMask : j < k /\ tubeMask[k] => tubeMask[j]

\* C37: in every reachable game state, for every tube i the mask
\* lockedMask[i] has the length of tubes[i], the top segment of every
\* non-empty tube is unlocked, and the locked positions form a contiguous
\* block at the bottom of the tube.
C37_MasksWellFormed ==
  /\ DOMAIN game.lockedMask = DOMAIN game.tubes
  /\ \A i \in DOMAIN game.tubes : MaskWellFormed(game.tubes[i], game.lockedMask[i])

\* a committed pour has uncovered a locked segment, which is revealed, above
\* a segment that stays locked
C37_Witness ==
  /\ Committed
  /\ \E i \in DOMAIN game.tubes :
       /\ Len(game.tubes[i]) > 1
       /\ Len(game.tubes[i]) < Len(before.tubes[i])
       /\ before.lockedMask[i][Len(game.tubes[i])]
       /\ ~game.lockedMask[i][Len(game.tubes[i])]
       /\ game.lockedMask[i][1]



\* the tube can be the source of a pour: it holds liquid and is not complete
CanBeSource(tube, tubeMask) == Len(tube) > 0 /\ ~isTubeComplete(tube, tubeMask)

\* C38: a completed tube can never be the source of a pour in the player
\* game: selectedTube, when non-null, refers to a non-empty tube that is not
\* complete, and no committed move has a source that was empty or complete
\* at the time of the pour.
C38_SourceNeverEmptyOrComplete ==
  /\ game.selectedTube # 0 =>
       CanBeSource(game.tubes[game.selectedTube], game.lockedMask[game.selectedTube])
  /\ \A i \in DOMAIN game.moves :
       CanBeSource(game.history[i][game.moves[i].from],
                   game.lockedMaskHistory[i][game.moves[i].from])

\* a pour the player can ask for: between two rendered tubes, from a tube
\* that can be selected
TappablePourExists ==
  \E f \in DOMAIN game.tubes, t \in DOMAIN game.tubes :
    /\ f # t
    /\ ~isPaidLocked(f)
    /\ ~isPaidLocked(t)
    /\ CanBeSource(game.tubes[f], game.lockedMask[f])
    /\ canPour(game.tubes[f], game.tubes[t])

\* C39: when the level is not complete, no pour animation is pending and
\* no legal pour exists between the tubes the player can tap (all but the
\* paid tubes not yet unlocked), the game reports stuck
C39_StuckReported ==
  (/\ ~levelComplete(game)
   /\ game.pourAnim = Null
   /\ ~TappablePourExists) => stuck(game)

====
